---- MODULE Spec2Model ----
(***************************************************************************)
(* Model of the serp-bench load scheduler (src/src/bench.ts), of the probe *)
(* result classification (src/src/googleSerp.ts, runOne in bench.ts) and   *)
(* of the offline aggregator (src/scripts/bench-aggregate.mjs).            *)
(*                                                                         *)
(* JavaScript runs the scheduler on one thread: a worker (an async arrow   *)
(* function) runs without interruption from one await to the next, so one  *)
(* action of the model is one such run-to-completion step.                 *)
(***************************************************************************)
EXTENDS Integers, Sequences, FiniteSets, TLC

VARIABLES
    args,        \* BenchArgs: concurrency list, plateauSec; vendorsIn as loaded
    vendors,     \* main: vendorsIn sorted, "direct" first
    mainpc,      \* position of main(): "loop", "await", "done"
    pairIdx,     \* index of the current (conc, vendor) iteration of the two for loops
    now,         \* Date.now()
    workers,     \* the worker promises that have not returned, and those of the current pair
    allResults,  \* the allResults array
    written,     \* the results array of results.json (written when mainpc = "done")
    started,     \* history: number of probes started (calls of runOne)
    trace,       \* history: for each append, the worker, its pair, the time
    call,        \* pure-function harness: the function applied and its arguments
    ret          \* pure-function harness: the value returned

vars == <<args, vendors, mainpc, pairIdx, now, workers, allResults, written,
          started, trace, call, ret>>

schedVars == <<args, vendors, mainpc, pairIdx, now, workers, allResults, written,
               started, trace>>

NULL == "null"
UNDEFINED == "undefined"

\* value of call and ret when no function is applied
NoCall == [fn |-> "none"]

(***************************************************************************)
(* Bounds of the model.                                                    *)
(***************************************************************************)
MaxConc == 2         \* largest plateau size in args.concurrency
MaxPlateaus == 2     \* longest args.concurrency list
MaxPlateauSec == 2   \* largest args.plateauSec, in clock ticks
MaxOverrun == 1      \* ticks the clock may advance past a pair's deadline
MaxWork == 3         \* inputs are kept to at most this many probes per run

----------------------------------------------------------------------------
(* Generic helpers *)

RECURSIVE SumSeq(_)
SumSeq(s) == IF s = <<>> THEN 0 ELSE Head(s) + SumSeq(Tail(s))

SeqsUpTo(S, n) == UNION {[1..k -> S] : k \in 1..n}

\* r.f in JavaScript: undefined when the object has no such property
Get(r, f) == IF f \in DOMAIN r THEN r[f] ELSE UNDEFINED

----------------------------------------------------------------------------
(* Probe adapter: searchGoogleDetailed, and the errors it raises *)

\* The messages of errors raised by the probe
Messages ==
    { "page.goto: net::ERR_PROXY_CONNECTION_FAILED",
      "page.goto: net::err_proxy_connection_failed",
      "browserType.launch: net::ERR_PROXY_CONNECTION_FAILED",
      "page.goto: net::ERR_NAME_NOT_RESOLVED",
      "PAGE.GOTO: net::ERR_TIMED_OUT",
      "browserContext.newPage: net::ERR_FAILED",
      "page.goto: Timeout exceeded",
      "Authenticated SOCKS proxies are not supported" }

\* The text of a message cut into the pieces the regular expressions look at
Tokens(msg) ==
    CASE msg = "page.goto: net::ERR_PROXY_CONNECTION_FAILED" ->
            <<"page.goto: ", "net::", "ERR_", "PROXY_CONNECTION_FAILED">>
      [] msg = "page.goto: net::err_proxy_connection_failed" ->
            <<"page.goto: ", "net::", "err_", "proxy_connection_failed">>
      [] msg = "browserType.launch: net::ERR_PROXY_CONNECTION_FAILED" ->
            <<"browserType.launch: ", "net::", "ERR_", "PROXY_CONNECTION_FAILED">>
      [] msg = "page.goto: net::ERR_NAME_NOT_RESOLVED" ->
            <<"page.goto: ", "net::", "ERR_", "NAME_NOT_RESOLVED">>
      [] msg = "PAGE.GOTO: net::ERR_TIMED_OUT" ->
            <<"PAGE.GOTO: ", "net::", "ERR_", "TIMED_OUT">>
      [] msg = "browserContext.newPage: net::ERR_FAILED" ->
            <<"browserContext.newPage: ", "net::", "ERR_", "FAILED">>
      [] msg = "page.goto: Timeout exceeded" ->
            <<"page.goto: ", "Timeout ", "exceeded">>
      [] OTHER -> <<msg>>

\* the /i flag of the regular expressions
ToLower(tok) ==
    CASE tok = "PAGE.GOTO: " -> "page.goto: "
      [] tok = "ERR_" -> "err_"
      [] tok = "PROXY_CONNECTION_FAILED" -> "proxy_connection_failed"
      [] OTHER -> tok

\* /ERR_PROXY_CONNECTION_FAILED/i.test(msg)
TestProxyConn(msg) ==
    LET t == Tokens(msg)
    IN  \E i \in 1..(Len(t) - 1) :
            /\ ToLower(t[i]) = "err_"
            /\ ToLower(t[i + 1]) = "proxy_connection_failed"

\* /^page\.goto: net::ERR_/i.test(msg)
TestGotoNetErr(msg) ==
    LET t == Tokens(msg)
    IN  /\ Len(t) >= 3
        /\ ToLower(t[1]) = "page.goto: "
        /\ ToLower(t[2]) = "net::"
        /\ ToLower(t[3]) = "err_"

\* What a completed navigation observed: HTTP status, block phrase, organic results
Observations ==
    [status : {200, 403, 429}, hitPhrase : BOOLEAN, results : {<<>>, <<"u1">>, <<"u1", "u2">>}]

\* `http-${status}`
HttpTag(status) ==
    CASE status = 403 -> "http-403" [] status = 429 -> "http-429" [] OTHER -> "http-other"

\* searchGoogleDetailed: the value returned for an observation
searchGoogleDetailed_anyResult(query, obs) ==
    LET ok == Len(obs.results) > 0
    IN  [ query |-> query,
          results |-> obs.results,
          ok |-> ok,
          blocked |-> (obs.status >= 400) \/ obs.hitPhrase,
          blockType |-> IF obs.status >= 400 THEN HttpTag(obs.status)
                        ELSE IF obs.hitPhrase THEN "captcha/block-page"
                        ELSE IF ~ok THEN "no-results" ELSE UNDEFINED ]

searchGoogleDetailed(query, obs) ==
    LET ok == ~(obs.status >= 400 \/ obs.hitPhrase) /\ Len(obs.results) > 0
    IN  [ query |-> query,
          results |-> obs.results,
          ok |-> ok,
          blocked |-> (obs.status >= 400) \/ obs.hitPhrase,
          blockType |-> IF obs.status >= 400 THEN HttpTag(obs.status)
                        ELSE IF obs.hitPhrase THEN "captcha/block-page"
                        ELSE IF ~ok THEN "no-results" ELSE UNDEFINED ]

\* What one probe does: return an observation or raise an error
Outcomes ==
    [kind : {"return"}, obs : Observations] \cup [kind : {"throw"}, message : Messages]

----------------------------------------------------------------------------
(* runOne *)

\* { ...r, f: v }: a property whose value is undefined is not kept (it is not
\* written by JSON.stringify and reads back as undefined)
With(r, f, v) == [g \in DOMAIN r \cup {f} |-> IF g = f THEN v ELSE r[g]]

WithOpt(r, f, v) == IF v = UNDEFINED THEN [g \in DOMAIN r \ {f} |-> r[g]] ELSE With(r, f, v)

\* runOne, the catch branch: classification of the raised error
runOneCatch_netFirst(outBase, msg) ==
    LET blockType == IF TestGotoNetErr(msg) THEN "network-error"
                     ELSE IF TestProxyConn(msg) THEN "proxy-conn-failed"
                     ELSE UNDEFINED
        blocked == TestGotoNetErr(msg) \/ TestProxyConn(msg)
    IN  WithOpt(With(With(With(outBase, "ok", FALSE), "blocked", blocked),
                  "error", msg), "blockType", blockType)

runOneCatch(outBase, msg) ==
    LET blockType == IF TestProxyConn(msg) THEN "proxy-conn-failed"
                     ELSE IF TestGotoNetErr(msg) THEN "network-error"
                     ELSE UNDEFINED
        blocked == TestProxyConn(msg) \/ TestGotoNetErr(msg)
    IN  WithOpt(With(With(With(outBase, "ok", FALSE), "blocked", blocked),
                  "error", msg), "blockType", blockType)

\* runOne: ts is Date.now() at the call, outcome is what the probe then does.
\* A OneRun has no conc property.
runOne(vendor, query, ts, outcome) ==
    LET outBase == [ vendor |-> vendor, query |-> query, ok |-> FALSE, blocked |-> FALSE,
                     ts |-> ts ]
    IN  IF outcome.kind = "return"
        THEN LET r == searchGoogleDetailed(query, outcome.obs)
             IN  WithOpt(With(With(With(outBase, "ok", r.ok), "blocked", r.blocked),
                              "results", r.results), "blockType", r.blockType)
        ELSE runOneCatch(outBase, outcome.message)

----------------------------------------------------------------------------
(* main: the scheduler *)

VendorFiles == { <<>>, <<"direct">>, <<"vendorA", "direct">> }

Queries == <<"q1">>

\* vendorsIn.slice().sort(...): "direct" moves to the front, the rest keeps its order
SortVendors(vs) ==
    SelectSeq(vs, LAMBDA v : v = "direct") \o SelectSeq(vs, LAMBDA v : v # "direct")

\* Largest number of probes a run with these arguments can start
Work(a) == SumSeq(a.concurrency) * Len(a.vendorsIn) * a.plateauSec

ArgsSet ==
    { a \in [ concurrency : SeqsUpTo(1..MaxConc, MaxPlateaus),
              plateauSec : 1..MaxPlateauSec,
              vendorsIn : VendorFiles ] : Work(a) <= MaxWork }

\* The iterations of "for conc of args.concurrency, for vendor of vendors", in order
Pairs == [ k \in 1..(Len(args.concurrency) * Len(vendors)) |->
             [ conc |-> args.concurrency[((k - 1) \div Len(vendors)) + 1],
               vendor |-> vendors[((k - 1) % Len(vendors)) + 1] ] ]

\* while (Date.now() < deadline)
CanStart_inclusive(t, deadline) == t <= deadline

CanStart_always(t, deadline) == TRUE

CanStart(t, deadline) == t < deadline

\* for (let i = 0; i < conc; i++)
NumWorkers_offByOne(conc) == conc + 1

NumWorkers(conc) == conc

\* allResults.push(r)
Push_overwrite(list, e) ==
    IF list = <<>> THEN <<e>> ELSE [list EXCEPT ![Len(list)] = e]

Push(list, e) == Append(list, e)

\* The worker loop goes on after an event r whatever r.ok is
LoopAgain_stopOnError(r, t, deadline) == r.ok /\ CanStart(t, deadline)

LoopAgain(r, t, deadline) == CanStart(t, deadline)

\* Promise.allSettled(workers): every worker of the pair has returned
AllSettled_any(ws, k) ==
    \E i \in 1..Len(ws) : ws[i].pair = k /\ ws[i].pc = "done"

AllSettled(ws, k) ==
    \A i \in 1..Len(ws) : ws[i].pair = k => ws[i].pc = "done"

InFlight(ws) == { i \in 1..Len(ws) : ws[i].pc = "inflight" }

DoneWorker(k, slot, deadline) ==
    [ pair |-> k, slot |-> slot, pc |-> "done", deadline |-> deadline, ts |-> 0, query |-> NULL ]

ProbingWorker(k, slot, deadline, t, q) ==
    [ pair |-> k, slot |-> slot, pc |-> "inflight", deadline |-> deadline, ts |-> t, query |-> q ]

Init ==
    /\ args \in ArgsSet
    /\ vendors = SortVendors(args.vendorsIn)
    /\ mainpc = "loop"
    /\ pairIdx = 1
    /\ now = 0
    /\ workers = <<>>
    /\ allResults = <<>>
    /\ written = <<>>
    /\ started = 0
    /\ trace = <<>>
    /\ call = NoCall
    /\ ret = NoCall

\* One iteration of the loops up to "await Promise.allSettled": the deadline is
\* taken, then each worker runs to its first await (the probe of its first query).
RunPair ==
    /\ mainpc = "loop"
    /\ pairIdx <= Len(Pairs)
    /\ LET deadline == now + args.plateauSec
           n == NumWorkers(Pairs[pairIdx].conc)
       IN  \E qs \in [1..n -> 1..Len(Queries)] :
             /\ workers' = SelectSeq(workers, LAMBDA w : w.pc # "done") \o
                    [ i \in 1..n |->
                        IF CanStart(now, deadline)
                        THEN ProbingWorker(pairIdx, i, deadline, now, Queries[qs[i]])
                        ELSE DoneWorker(pairIdx, i, deadline) ]
             /\ started' = started + (IF CanStart(now, deadline) THEN n ELSE 0)
    /\ mainpc' = "await"
    /\ UNCHANGED <<args, vendors, pairIdx, now, allResults, written, trace, call, ret>>

\* The probe of worker i completes: runOne returns the event, the worker appends
\* it, tests the deadline and either starts the next probe or returns.
\* runOne catches whatever the probe raises, so the catch of the worker loop is
\* never entered.  A probe takes at least one tick of the clock.
ProbeDone(i, outcome) ==
    /\ i \in InFlight(workers)
    /\ now > workers[i].ts
    /\ LET w == workers[i]
           r == runOne(Pairs[w.pair].vendor, w.query, w.ts, outcome)
       IN  /\ allResults' = Push(allResults, r)
           /\ trace' = Append(trace, [ pair |-> w.pair, slot |-> w.slot, at |-> now,
                                       deadline |-> w.deadline, ts |-> w.ts ])
           /\ IF LoopAgain(r, now, w.deadline)
              THEN /\ \E q \in 1..Len(Queries) :
                        workers' = [workers EXCEPT ![i] =
                            ProbingWorker(w.pair, w.slot, w.deadline, now, Queries[q])]
                   /\ started' = started + 1
              ELSE /\ workers' = [workers EXCEPT ![i] = DoneWorker(w.pair, w.slot, w.deadline)]
                   /\ started' = started
    /\ UNCHANGED <<args, vendors, mainpc, pairIdx, now, written, call, ret>>

\* The outcomes the scheduler runs are drawn from
SchedOutcomes ==
    { [kind |-> "return", obs |-> [status |-> 200, hitPhrase |-> FALSE, results |-> <<"u1">>]],
      [kind |-> "throw", message |-> "page.goto: Timeout exceeded"] }

ProbeReturn ==
    \E i \in 1..Len(workers) : \E o \in {x \in SchedOutcomes : x.kind = "return"} :
        ProbeDone(i, o)

ProbeRaise ==
    \E i \in 1..Len(workers) : \E o \in {x \in SchedOutcomes : x.kind = "throw"} :
        ProbeDone(i, o)

\* await Promise.allSettled(workers) resumes; the loops move to the next pair
Join ==
    /\ mainpc = "await"
    /\ AllSettled(workers, pairIdx)
    /\ pairIdx' = pairIdx + 1
    /\ mainpc' = "loop"
    /\ UNCHANGED <<args, vendors, now, workers, allResults, written, started, trace, call, ret>>

\* After the loops: results.json is written
WriteResults ==
    /\ mainpc = "loop"
    /\ pairIdx > Len(Pairs)
    /\ written' = allResults
    /\ mainpc' = "done"
    /\ UNCHANGED <<args, vendors, pairIdx, now, workers, allResults, started, trace, call, ret>>

\* The clock advances while main awaits the workers
Tick ==
    /\ mainpc = "await"
    /\ \E i \in 1..Len(workers) : workers[i].pair = pairIdx /\ now < workers[i].deadline + MaxOverrun
    /\ now' = now + 1
    /\ UNCHANGED <<args, vendors, mainpc, pairIdx, workers, allResults, written, started, trace,
                   call, ret>>

Next == RunPair \/ ProbeReturn \/ ProbeRaise \/ Join \/ WriteResults \/ Tick

Spec == Init /\ [][Next]_vars

\* The event loop runs every continuation that is ready, the clock advances and
\* every probe returns or raises.
FairSpec ==
    /\ Init /\ [][Next]_vars
    /\ WF_vars(RunPair) /\ WF_vars(Join) /\ WF_vars(WriteResults)
    /\ WF_vars(ProbeReturn \/ ProbeRaise)
    /\ WF_vars(Tick)

----------------------------------------------------------------------------
(* Properties of the scheduler *)

Last(s) == s[Len(s)]

\* The probes in flight: worker (pair, slot), start time, deadline of the worker
Probes(ws) == { <<ws[i].pair, ws[i].slot, ws[i].ts, ws[i].deadline>> : i \in InFlight(ws) }

\* The appends made by worker (k, slot)
AppendsOf(k, slot) == { n \in 1..Len(trace) : trace[n].pair = k /\ trace[n].slot = slot }

\* C1: at every moment all probes in flight belong to one (plateau, vendor) pair,
\* the pair main() is waiting for: no probe of a later pair starts before every
\* worker of the current pair has returned.
C1_OnePairInFlight ==
    \A i \in InFlight(workers) : workers[i].pair = pairIdx /\ mainpc = "await"

\* a later pair is being probed after a worker of an earlier pair appended its
\* last event after that pair's deadline
C1_Witness ==
    /\ InFlight(workers) # {}
    /\ \E n \in 1..Len(trace) : trace[n].pair < pairIdx /\ trace[n].at > trace[n].deadline

\* C2: a probe starts only strictly before the deadline of its worker, and a probe
\* leaves the in-flight set only by appending its event, deadline passed or not.
C2_DeadlineGate ==
    [][ /\ \A p \in Probes(workers') \ Probes(workers) : p[3] = now /\ now < p[4]
        /\ \A p \in Probes(workers) \ Probes(workers') :
              /\ Len(allResults') = Len(allResults) + 1
              /\ Last(allResults').ts = p[3]
              /\ Last(allResults').vendor = Pairs[p[1]].vendor ]_vars

\* a probe started before the deadline, completed after it, and its event is stored
C2_Witness ==
    \E n \in 1..Len(trace) :
        /\ trace[n].ts < trace[n].deadline
        /\ trace[n].at > trace[n].deadline
        /\ n <= Len(allResults)
        /\ allResults[n].ts = trace[n].ts

\* C3: while main() waits for a pair of plateau size c, exactly c workers were
\* launched for it and at most c probes are in flight.
C3_WorkerCount ==
    mainpc = "await" =>
        /\ Cardinality({ i \in 1..Len(workers) : workers[i].pair = pairIdx }) = Pairs[pairIdx].conc
        /\ Cardinality(InFlight(workers)) <= Pairs[pairIdx].conc

\* c >= 2 probes are in flight at once
C3_Witness ==
    /\ mainpc = "await"
    /\ Pairs[pairIdx].conc >= 2
    /\ Cardinality(InFlight(workers)) = Pairs[pairIdx].conc

\* C4: every probe started is either in flight or has exactly one stored event,
\* and an append leaves the events stored before it as they were.
C4_NoLostEvent ==
    [][ /\ Len(allResults') >= Len(allResults)
        /\ SubSeq(allResults', 1, Len(allResults)) = allResults
        /\ Len(allResults') + Cardinality(InFlight(workers')) = started'
        /\ (mainpc' = "done" => Len(written') = started') ]_vars

\* the run ended after two workers of one pair appended in both orders of their slots
C4_Witness ==
    /\ mainpc = "done"
    /\ Len(allResults) = started
    /\ \E m, n \in 1..Len(trace) :
          m < n /\ trace[m].pair = trace[n].pair /\ trace[m].slot > trace[n].slot

\* C5: when a probe raises, one event with ok = FALSE is appended, main() stays
\* where it is, the other probes stay in flight, and the worker starts its next
\* probe if the deadline has not passed.
C5_FailureContained ==
    [][ \A p \in Probes(workers) \ Probes(workers') :
          (Len(allResults') = Len(allResults) + 1 /\ Get(Last(allResults'), "error") # UNDEFINED) =>
              /\ Last(allResults').ok = FALSE
              /\ mainpc' = mainpc /\ pairIdx' = pairIdx
              /\ Probes(workers) \ {p} \subseteq Probes(workers')
              /\ (now < p[4] => <<p[1], p[2], now, p[4]>> \in Probes(workers')) ]_vars

\* a worker appended a failure and later another event, and main() left the pair
C5_Witness ==
    \E m, n \in 1..Len(trace) :
        /\ m < n /\ n <= Len(allResults)
        /\ Get(allResults[m], "error") # UNDEFINED /\ ~allResults[m].ok
        /\ trace[m].pair = trace[n].pair /\ trace[m].slot = trace[n].slot
        /\ pairIdx > trace[m].pair

\* C7: every stored event carries a concurrency tag equal to the plateau size of
\* the pair that produced it.
C7_ConcurrencyTag ==
    \A n \in 1..Len(allResults) :
        n <= Len(trace) =>
            /\ "conc" \in DOMAIN allResults[n]
            /\ allResults[n].conc = Pairs[trace[n].pair].conc

\* C8: the run ends with results.json written and every pair probed, in order;
\* a worker returns only once its deadline is reached.
AllPairsRun ==
    /\ \A k \in 1..Len(Pairs) : \A slot \in 1..Pairs[k].conc : AppendsOf(k, slot) # {}
    /\ \A m, n \in 1..Len(trace) : m <= n => trace[m].pair <= trace[n].pair

C8_TimeBoxed ==
    /\ <>(mainpc = "done" /\ written = allResults /\ AllPairsRun)
    /\ [](\A i \in 1..Len(workers) : workers[i].pc = "done" => now >= workers[i].deadline)

\* the run ended and one worker made two probes within its pair
C8_Witness ==
    /\ mainpc = "done"
    /\ written = allResults
    /\ \E k \in 1..Len(Pairs) : \E slot \in 1..Pairs[k].conc : Cardinality(AppendsOf(k, slot)) >= 2

----------------------------------------------------------------------------
(* Pure functions: each is applied once to arguments drawn by the initial state *)

\* The scheduler at rest, for the specifications that only apply a function
SchedulerIdle ==
    /\ args = [concurrency |-> <<1>>, plateauSec |-> 1, vendorsIn |-> <<>>]
    /\ vendors = <<>>
    /\ mainpc = "done"
    /\ pairIdx = 1
    /\ now = 0
    /\ workers = <<>>
    /\ allResults = <<>>
    /\ written = <<>>
    /\ started = 0
    /\ trace = <<>>

(* runOne *)

InitRunOne ==
    /\ SchedulerIdle
    /\ call \in [fn : {"runOne"}, vendor : {"direct", "vendorA"}, query : {"q1"},
                 ts : {0, 1}, outcome : Outcomes]
    /\ ret = NoCall

CallRunOne ==
    /\ call.fn = "runOne"
    /\ ret = NoCall
    /\ ret' = [fn |-> "runOne", out |-> runOne(call.vendor, call.query, call.ts, call.outcome)]
    /\ UNCHANGED <<schedVars, call>>

NextRunOne == CallRunOne

SpecRunOne == InitRunOne /\ [][NextRunOne]_vars

\* What each error is, whatever the tests of runOne say
ErrorClass(msg) ==
    CASE msg \in { "page.goto: net::ERR_PROXY_CONNECTION_FAILED",
                   "page.goto: net::err_proxy_connection_failed",
                   "browserType.launch: net::ERR_PROXY_CONNECTION_FAILED" } -> "proxy"
      [] msg \in { "page.goto: net::ERR_NAME_NOT_RESOLVED",
                   "PAGE.GOTO: net::ERR_TIMED_OUT" } -> "network"
      [] OTHER -> "other"

\* C6: a raised error gives an event with ok = FALSE; a proxy connection failure is
\* tagged proxy-conn-failed (also when it is a navigation error), another navigation
\* network error is tagged network-error, any other error has blocked = FALSE, no
\* tag and the error text.
C6_Classification ==
    (ret.fn = "runOne" /\ call.outcome.kind = "throw") =>
        LET e == ret.out
            c == ErrorClass(call.outcome.message)
        IN  /\ e.ok = FALSE
            /\ e.error = call.outcome.message
            /\ c = "proxy" => Get(e, "blockType") = "proxy-conn-failed"
            /\ c = "network" => Get(e, "blockType") = "network-error"
            /\ c = "other" => e.blocked = FALSE /\ "blockType" \notin DOMAIN e

\* an error that matches both patterns was classified
C6_Witness ==
    /\ ret.fn = "runOne"
    /\ call.outcome.kind = "throw"
    /\ call.outcome.message = "page.goto: net::ERR_PROXY_CONNECTION_FAILED"
    /\ Get(ret.out, "blockType") = "proxy-conn-failed"

(* decidePassFail *)

\* JavaScript values of the metrics: null, undefined, or a number n/d with d > 0
NullV == [t |-> "null"]
UndefV == [t |-> "undefined"]
Num(n, d) == [t |-> "num", n |-> n, d |-> d]

\* v == null, which holds of null and of undefined
IsNullish(v) == v \in {NullV, UndefV}

\* o?.f
OptGet(o, f) == IF IsNullish(o) \/ f \notin DOMAIN o THEN UndefV ELSE o[f]

\* a <= b and a / b on numbers
Leq(a, b) == a.n * b.d <= b.n * a.d

Quot(a, b) == IF b.n > 0 THEN Num(a.n * b.d, a.d * b.n) ELSE Num(-(a.n * b.d), -(a.d * b.n))

\* a number used as a condition: null, undefined and 0 are false
Truthy(v) == ~IsNullish(v) /\ v.n # 0

\* (v != null ? test : true)
Criterion_strict(v, test) == IF ~IsNullish(v) THEN test ELSE FALSE

Criterion(v, test) == IF ~IsNullish(v) THEN test ELSE TRUE

Thresholds ==
    [ Overhead_p95_ratio_max |-> Num(13, 10),
      SuccessRate_min |-> Num(98, 100),
      CaptchaRate_max |-> Num(1, 100),
      Sticky_survival_p50_min |-> Num(10, 1),
      TailAmp_ratio_to_direct_max |-> Num(12, 10),
      TopK_Jaccard_min |-> Num(9, 10) ]

decidePassFail(metrics, correctness, sticky) ==
    LET ratio == OptGet(metrics, "Overhead_p95_ratio")
        succ == OptGet(OptGet(metrics, "reliability"), "successRate")
        captcha == OptGet(OptGet(metrics, "reliability"), "captchaRate")
        sticky50 == OptGet(sticky, "p50")
        tailDirect == OptGet(OptGet(metrics, "TailAmp"), "direct")
        tailProxy == OptGet(OptGet(metrics, "TailAmp"), "proxy")
        tailOk == IF Truthy(tailDirect) /\ Truthy(tailProxy)
                  THEN Quot(tailProxy, tailDirect) ELSE NullV
        jacc == OptGet(correctness, "avg")
        pass == /\ Criterion(ratio, Leq(ratio, Num(13, 10)))
                /\ Criterion(succ, Leq(Num(98, 100), succ))
                /\ Criterion(captcha, Leq(captcha, Num(1, 100)))
                /\ Criterion(sticky50, Leq(Num(10, 1), sticky50))
                /\ Criterion(tailOk, Leq(tailOk, Num(12, 10)))
                /\ Criterion(jacc, Leq(Num(9, 10), jacc))
    IN  [ pass |-> pass,
          thresholds |-> Thresholds,
          observed |-> [ Overhead_p95_ratio |-> ratio,
                         SuccessRate |-> succ,
                         CaptchaRate |-> captcha,
                         Sticky_survival_p50 |-> sticky50,
                         TailAmp_ratio_to_direct |-> tailOk,
                         TopK_Jaccard |-> jacc ] ]

\* The arguments main() passes: { ...speeds, reliability: relP }, corr, sticky.
\* tailAmp returns null or a number that is not 0; corr is undefined for a vendor
\* without events that have a query.
DecideMetrics ==
    [ Overhead_p95_ratio : {NullV, Num(13, 10), Num(131, 100)},
      reliability : [ successRate : {NullV, Num(98, 100), Num(97, 100)},
                      captchaRate : {NullV, Num(1, 100), Num(2, 100)} ],
      TailAmp : [ direct : {NullV, Num(1, 1), Num(3, 2)},
                  proxy : {NullV, Num(6, 5), Num(9, 5), Num(181, 100)} ] ]

DecideCorrectness == {UndefV} \cup [avg : {NullV, Num(9, 10), Num(89, 100), Num(1, 1)}]

DecideSticky == [p50 : {NullV, Num(10, 1), Num(9, 1)}]

InitDecide ==
    /\ SchedulerIdle
    /\ call \in [fn : {"decidePassFail"}, metrics : DecideMetrics,
                 correctness : DecideCorrectness, sticky : DecideSticky]
    /\ ret = NoCall

CallDecide ==
    /\ call.fn = "decidePassFail"
    /\ ret = NoCall
    /\ ret' = [fn |-> "decidePassFail",
               out |-> decidePassFail(call.metrics, call.correctness, call.sticky)]
    /\ UNCHANGED <<schedVars, call>>

NextDecide == CallDecide

SpecDecide == InitDecide /\ [][NextDecide]_vars

\* The six observed values of a call, read from its arguments
Known(v) == v.t = "num"

ObsRatio == call.metrics.Overhead_p95_ratio
ObsSucc == call.metrics.reliability.successRate
ObsCaptcha == call.metrics.reliability.captchaRate
ObsSticky == call.sticky.p50
ObsTailDirect == call.metrics.TailAmp.direct
ObsTailProxy == call.metrics.TailAmp.proxy
ObsJacc == IF call.correctness = UndefV THEN UndefV ELSE call.correctness.avg

\* C9: pass is TRUE exactly when each criterion is unknown or satisfied:
\* p95 ratio <= 1.3, success rate >= 0.98, captcha rate <= 0.01, sticky p50 >= 10,
\* vendor tail amplification / baseline tail amplification <= 1.2, Jaccard >= 0.9.
C9_PassIff ==
    ret.fn = "decidePassFail" =>
        ( ret.out.pass <=>
            /\ Known(ObsRatio) => 10 * ObsRatio.n <= 13 * ObsRatio.d
            /\ Known(ObsSucc) => 100 * ObsSucc.n >= 98 * ObsSucc.d
            /\ Known(ObsCaptcha) => 100 * ObsCaptcha.n <= ObsCaptcha.d
            /\ Known(ObsSticky) => ObsSticky.n >= 10 * ObsSticky.d
            /\ (Known(ObsTailDirect) /\ Known(ObsTailProxy)) =>
                   10 * ObsTailProxy.n * ObsTailDirect.d <= 12 * ObsTailProxy.d * ObsTailDirect.n
            /\ Known(ObsJacc) => 10 * ObsJacc.n >= 9 * ObsJacc.d )

\* a vendor whose six observed values are all unknown passes
C9_Witness ==
    /\ ret.fn = "decidePassFail"
    /\ ~Known(ObsRatio) /\ ~Known(ObsSucc) /\ ~Known(ObsCaptcha) /\ ~Known(ObsSticky)
    /\ ~Known(ObsTailDirect) /\ ~Known(ObsTailProxy) /\ ~Known(ObsJacc)
    /\ ret.out.pass


----------------------------------------------------------------------------
(* Aggregator, normalizer: unifyFromResultsJson, unifyFromNdjsonFile *)

\* More JavaScript values: NaN and a string (of a timestamp)
NaNV == [t |-> "nan"]
StrV(s) == [t |-> "str", s |-> s]

\* Number.isFinite(v)
IsFinite(v) == v.t = "num"

\* a - b on numbers, Math.max(0, a)
Minus(a, b) == Num(a.n * b.d - b.n * a.d, a.d * b.d)

MaxZero(a) == IF a.n < 0 THEN Num(0, 1) ELSE a

\* What JSON.parse gives: it throws (Garbage), or returns null, or an object, which
\* is a record that has the properties present in the text. A line may be blank.
Garbage == [j |-> "garbage"]
JNull == [j |-> "null"]
JObj == [j |-> "obj"]
Blank == [j |-> "blank"]

Has(r, f) == f \in DOMAIN r

\* !!r.f
Flag(r, f) == Has(r, f) /\ r[f]

\* r.f || dflt where r.f is a string
StrOr(r, f, dflt) == IF Has(r, f) /\ r[f] # "" THEN r[f] ELSE dflt

\* Date.parse(s), in milliseconds
DateParse(s) ==
    CASE s = "1970-01-01T00:00:00.001Z" -> Num(1, 1)
      [] s = "1970-01-01T00:00:00.002Z" -> Num(2, 1)
      [] OTHER -> NaNV

\* /captcha/i.test(s)
TestCaptcha(s) == s \in {"captcha/block-page", "CAPTCHA"}

\* safeNum(n)
safeNum(n) == IF IsFinite(n) THEN n ELSE NullV

\* a ?? b
Coalesce(a, b) == IF IsNullish(a) THEN b ELSE a

\* x?.url of an item of r.results; "" stands for a value that filter(Boolean) drops
UrlOf(x) == IF x = JNull \/ ~Has(x, "url") THEN "" ELSE x.url

\* One iteration of the loop of unifyFromResultsJson; clock is Date.now()
unifyRecord(r, clock) ==
    LET blockType == StrOr(r, "blockType", NULL)
        tsv == OptGet(r, "ts")
        ts == IF tsv.t = "num" THEN tsv
              ELSE IF tsv.t = "str" /\ tsv.s # "" THEN DateParse(tsv.s)
              ELSE Num(clock, 1)
        timings == IF Has(r, "timings") THEN r.timings ELSE JObj
        dns == IF /\ Has(timings, "raw")
                  /\ IsFinite(OptGet(timings.raw, "domainLookupEnd"))
                  /\ IsFinite(OptGet(timings.raw, "domainLookupStart"))
               THEN MaxZero(Minus(timings.raw.domainLookupEnd, timings.raw.domainLookupStart))
               ELSE NullV
        urls == IF Has(r, "results")
                THEN [i \in 1..Len(r.results) |-> UrlOf(r.results[i])]
                ELSE <<>>
    IN  [ vendor |-> StrOr(r, "vendor", "unknown"),
          ok |-> Flag(r, "ok"),
          blocked |-> Flag(r, "blocked"),
          blockType |-> blockType,
          ts |-> ts,
          conc |-> safeNum(OptGet(r, "conc")),
          dns |-> dns,
          connect |-> safeNum(OptGet(timings, "connect")),
          tls |-> safeNum(OptGet(timings, "tls")),
          ttfb |-> safeNum(OptGet(timings, "ttfb")),
          total |-> safeNum(OptGet(timings, "total")),
          query |-> StrOr(r, "query", NULL),
          topk |-> SelectSeq(urls, LAMBDA u : u # ""),
          failure_reason |-> IF blockType # NULL THEN blockType
                             ELSE IF StrOr(r, "error", "") # "" THEN "error" ELSE NULL,
          captcha |-> blockType # NULL /\ TestCaptcha(blockType),
          session_id |-> NULL,
          ip |-> NULL,
          hint_geo |-> NULL,
          observed_geo |-> NULL,
          bytes_up |-> NullV,
          bytes_down |-> NullV ]

\* unifyFromResultsJson(doc): reading a property of a record that is null throws,
\* and then the events of the records before it are lost with the local array
unifyFromResultsJson(doc, clock) ==
    LET arr == IF doc # JNull /\ Has(doc, "results") THEN doc.results ELSE <<>>
    IN  IF \E i \in 1..Len(arr) : arr[i] = JNull
        THEN [threw |-> TRUE, events |-> <<>>]
        ELSE [threw |-> FALSE, events |-> [i \in 1..Len(arr) |-> unifyRecord(arr[i], clock)]]

\* The try block of unifyFromNdjsonFile for a line that JSON.parse accepts as o
unifyLine(o, clock) ==
    LET tsv == OptGet(o, "ts")
        ts == IF tsv.t = "num" /\ tsv.n # 0 THEN tsv
              ELSE IF tsv.t = "str" /\ tsv.s # "" THEN DateParse(tsv.s)
              ELSE Num(clock, 1)
        conc == IF IsFinite(OptGet(o, "conc")) THEN o.conc
                ELSE IF IsFinite(OptGet(o, "concurrency")) THEN o.concurrency
                ELSE NullV
        bt == StrOr(o, "blockType", "")
        fr == StrOr(o, "failure_reason", "")
    IN  [ vendor |-> StrOr(o, "vendor", StrOr(o, "path", "unknown")),
          ok |-> Flag(o, "ok"),
          blocked |-> Flag(o, "blocked"),
          blockType |-> IF bt # "" THEN bt ELSE IF fr # "" THEN fr ELSE NULL,
          failure_reason |-> IF fr # "" THEN fr
                             ELSE IF bt # "" THEN bt
                             ELSE IF StrOr(o, "err", "") # "" THEN "error" ELSE NULL,
          captcha |-> Flag(o, "captcha"),
          ts |-> ts,
          conc |-> conc,
          dns |-> safeNum(OptGet(o, "dns_ms")),
          connect |-> Coalesce(safeNum(OptGet(o, "connect_ms")), safeNum(OptGet(o, "tcp_ms"))),
          tls |-> safeNum(OptGet(o, "tls_ms")),
          ttfb |-> safeNum(OptGet(o, "ttfb_ms")),
          total |-> safeNum(OptGet(o, "total_ms")),
          query |-> StrOr(o, "q", StrOr(o, "query", NULL)),
          topk |-> IF Has(o, "top10") THEN o.top10
                   ELSE IF Has(o, "topk") THEN o.topk ELSE <<>>,
          session_id |-> StrOr(o, "session_id", StrOr(o, "session", NULL)),
          ip |-> StrOr(o, "ip", NULL),
          hint_geo |-> StrOr(o, "hint_geo", NULL),
          observed_geo |-> StrOr(o, "observed_geo", NULL),
          bytes_up |-> safeNum(OptGet(o, "bytes_up")),
          bytes_down |-> safeNum(OptGet(o, "bytes_down")) ]

\* A line gives an event unless it is blank, JSON.parse throws, or it is null
\* (reading a property of null throws inside the try block)
LineParses(l) == l \notin {Blank, Garbage, JNull}

\* unifyFromNdjsonFile(file) on the lines of the file
RECURSIVE unifyFromNdjsonFile(_, _)
unifyFromNdjsonFile(lines, clock) ==
    IF lines = <<>> THEN <<>>
    ELSE (IF LineParses(Head(lines)) THEN <<unifyLine(Head(lines), clock)>> ELSE <<>>)
         \o unifyFromNdjsonFile(Tail(lines), clock)

----------------------------------------------------------------------------
(* Aggregator, loader: loadAll *)

MaxFiles == 2        \* longest list of input files

\* path.extname(f).toLowerCase(), path.basename(f).toLowerCase(), base.includes('samples')
FileNames == {"bench_out/results.json", "samples.ndjson", "run1.json"}

ExtName(f) == IF f = "samples.ndjson" THEN ".ndjson" ELSE ".json"

BaseName(f) == IF f = "bench_out/results.json" THEN "results.json" ELSE f

IncludesSamples(base) == base = "samples.ndjson"

\* Records of a run, as a record of results.json or as a line of a stream: two of
\* them at the same instant, one with a date that Date.parse rejects, one without ts
RecA == [j |-> "obj", vendor |-> "direct", ok |-> TRUE, ts |-> Num(2, 1), query |-> "qa"]
RecB == [j |-> "obj", vendor |-> "vendorA", ok |-> TRUE, ts |-> Num(1, 1), query |-> "qb"]
RecC == [j |-> "obj", vendor |-> "vendorA", ok |-> FALSE,
         ts |-> StrV("1970-01-01T00:00:00.002Z"), query |-> "qc"]
RecD == [j |-> "obj", vendor |-> "direct", ok |-> TRUE, ts |-> StrV("yesterday"), query |-> "qd"]
RecE == [j |-> "obj", vendor |-> "direct", ok |-> FALSE, query |-> "qe"]

\* The content of a file: what it is, what JSON.parse gives for the whole text and
\* for each of its lines. A document written on several lines has no line that
\* parses; a text of one line parses as that line does.
BatchDoc(recs, oneLine) ==
    LET doc == [j |-> "obj", results |-> recs]
    IN  [ is |-> "batch", whole |-> doc,
          lines |-> IF oneLine THEN <<doc>> ELSE <<Garbage, Garbage, Garbage>> ]

TruncatedDoc == [is |-> "batch", whole |-> Garbage, lines |-> <<Garbage, Garbage>>]

StreamOf(lines) ==
    [ is |-> "stream",
      whole |-> IF Len(lines) = 1 /\ lines[1] # Blank THEN lines[1] ELSE Garbage,
      lines |-> lines ]

\* a file that cannot be read
Unreadable == [is |-> "missing"]

BatchBodies ==
    { BatchDoc(<<RecA, RecB>>, FALSE), BatchDoc(<<RecC>>, TRUE),
      BatchDoc(<<RecA, JNull>>, FALSE), BatchDoc(<<JNull>>, TRUE), TruncatedDoc }

StreamBodies ==
    { StreamOf(<<RecB, Garbage, RecA>>), StreamOf(<<RecC>>),
      StreamOf(<<Blank, JNull, RecD>>), StreamOf(<<RecE, Garbage>>) }

InputFiles ==
    { f \in [name : FileNames, body : BatchBodies \cup StreamBodies \cup {Unreadable}] :
        /\ f.name = "bench_out/results.json" => f.body \notin StreamBodies
        /\ f.name = "samples.ndjson" => f.body \notin BatchBodies }

\* What one iteration of the loop of loadAll adds for the file f: the events, the
\* messages of console.error, and whether an exception leaves loadAll
IngestFile(f, clock) ==
    LET ext == ExtName(f.name)
        base == BaseName(f.name)
        readable == f.body # Unreadable
        none == [events |-> <<>>, errors |-> <<>>, aborted |-> FALSE]
        failed(msg) == [events |-> <<>>, errors |-> <<msg>>, aborted |-> FALSE]
        batch == IF readable /\ f.body.whole # Garbage
                 THEN unifyFromResultsJson(f.body.whole, clock)
                 ELSE [threw |-> TRUE, events |-> <<>>]
        stream == IF readable
                  THEN [none EXCEPT !.events = unifyFromNdjsonFile(f.body.lines, clock)]
                  ELSE [none EXCEPT !.aborted = TRUE]
    IN  IF ext = ".json" /\ base = "results.json"
        THEN IF batch.threw THEN failed("Failed to read " \o f.name)
                            ELSE [none EXCEPT !.events = batch.events]
        ELSE IF ext = ".ndjson" \/ ext = ".log" \/ IncludesSamples(base)
        THEN stream
        ELSE IF /\ readable
                /\ f.body.whole \notin {Garbage, JNull}
                /\ Has(f.body.whole, "results")
                /\ ~batch.threw
        THEN [none EXCEPT !.events = batch.events]
        ELSE IF stream.aborted THEN failed("Unrecognized file format: " \o f.name)
                               ELSE stream

\* The loop of loadAll
RECURSIVE IngestAll(_, _)
IngestAll(files, clock) ==
    IF files = <<>> THEN [events |-> <<>>, errors |-> <<>>, aborted |-> FALSE]
    ELSE LET first == IngestFile(Head(files), clock)
             rest == IngestAll(Tail(files), clock)
         IN  IF first.aborted THEN first
             ELSE [ events |-> first.events \o rest.events,
                    errors |-> first.errors \o rest.errors,
                    aborted |-> rest.aborted ]

\* (a.ts || 0): NaN and 0 are false
TsKey(e) == IF e.ts.t = "num" /\ e.ts.n # 0 THEN e.ts ELSE Num(0, 1)

\* events.sort((a,b) => (a.ts||0) - (b.ts||0)); Array.prototype.sort is stable
InsertByTs(s, e) ==
    LET k == Cardinality({i \in 1..Len(s) : Leq(TsKey(s[i]), TsKey(e))})
    IN  SubSeq(s, 1, k) \o <<e>> \o SubSeq(s, k + 1, Len(s))

RECURSIVE SortByTs(_)
SortByTs(s) ==
    IF s = <<>> THEN <<>>
    ELSE InsertByTs(SortByTs(SubSeq(s, 1, Len(s) - 1)), s[Len(s)])

\* loadAll(files): ingested is the events array before it is sorted (history)
loadAll(files, clock) ==
    LET all == IngestAll(files, clock)
    IN  [ aborted |-> all.aborted,
          errors |-> all.errors,
          ingested |-> all.events,
          out |-> IF all.aborted THEN <<>> ELSE SortByTs(all.events) ]

InitLoad ==
    /\ SchedulerIdle
    /\ call \in [fn : {"loadAll"}, files : SeqsUpTo(InputFiles, MaxFiles), clock : {9}]
    /\ ret = NoCall

CallLoadAll ==
    /\ call.fn = "loadAll"
    /\ ret = NoCall
    /\ ret' = With(loadAll(call.files, call.clock), "fn", "loadAll")
    /\ UNCHANGED <<schedVars, call>>

NextLoad == CallLoadAll

SpecLoad == InitLoad /\ [][NextLoad]_vars

\* The input files, the messages reported
Range(s) == { s[i] : i \in 1..Len(s) }

Count(s, e) == Cardinality({i \in 1..Len(s) : s[i] = e})

SameBag(s, t) == \A e \in Range(s) \cup Range(t) : Count(s, e) = Count(t, e)

RECURSIVE Concat(_)
Concat(ss) == IF ss = <<>> THEN <<>> ELSE Head(ss) \o Concat(Tail(ss))

\* A batch document is malformed when its text does not parse or a record is null
Malformed(body) ==
    body.is = "batch" /\ (body.whole = Garbage \/ \E i \in 1..Len(body.whole.results) : body.whole.results[i] = JNull)

\* The events a file is to contribute: those of the lines that are objects, those
\* of the records of a well-formed document
Expected(f, clock) ==
    IF f.body.is = "stream"
    THEN LET good == SelectSeq(f.body.lines, LAMBDA l : l.j = "obj")
         IN  [i \in 1..Len(good) |-> unifyLine(good[i], clock)]
    ELSE IF Malformed(f.body) THEN <<>>
    ELSE [i \in 1..Len(f.body.whole.results) |-> unifyRecord(f.body.whole.results[i], clock)]

AllReadable == \A i \in 1..Len(call.files) : call.files[i].body # Unreadable

\* C11: when the input files are readable, loadAll returns; the events are those of
\* the parseable lines of every stream and of the records of every well-formed
\* batch document; a malformed batch document adds no event and is reported.
C11_Ingestion ==
    (ret.fn = "loadAll" /\ AllReadable) =>
        /\ ~ret.aborted
        /\ SameBag(ret.out, Concat([i \in 1..Len(call.files) |-> Expected(call.files[i], call.clock)]))
        /\ \A i \in 1..Len(call.files) :
              Malformed(call.files[i].body) =>
                  \E n \in 1..Len(ret.errors) : ret.errors[n] = "Failed to read " \o call.files[i].name

\* a <= b on timestamps: a comparison with NaN is false
TsLeq(a, b) == IsFinite(a) /\ IsFinite(b) /\ Leq(a, b)

\* C12: the events loadAll returns are in non-decreasing order of timestamp, and
\* the events of one timestamp are in the order in which they were ingested.
C12_SortedStable ==
    (ret.fn = "loadAll" /\ ~ret.aborted) =>
        /\ \A i \in 1..(Len(ret.out) - 1) : TsLeq(ret.out[i].ts, ret.out[i + 1].ts)
        /\ \A e \in Range(ret.out) :
              SelectSeq(ret.out, LAMBDA x : x.ts = e.ts) = SelectSeq(ret.ingested, LAMBDA x : x.ts = e.ts)

----------------------------------------------------------------------------
(* Aggregator, normalizer: one event written in the two formats *)

\* The outcome of an attempt: ok, blocked and the classification tag
EventOutcomes ==
    { [ok |-> TRUE, blocked |-> FALSE, reason |-> NULL],
      [ok |-> FALSE, blocked |-> TRUE, reason |-> "captcha/block-page"],
      [ok |-> FALSE, blocked |-> TRUE, reason |-> "http-429"],
      [ok |-> FALSE, blocked |-> FALSE, reason |-> "timeout"] }

\* An event of a run: what results.json and a stream line both have a field for
LogicalEvents ==
    [ vendor : {"direct", "vendorA"},
      outcome : EventOutcomes,
      ts : {Num(5, 1), Num(0, 1), StrV("1970-01-01T00:00:00.002Z")},
      conc : {NullV, Num(2, 1)},
      timed : BOOLEAN,
      query : {NULL, "q1"},
      topk : {<<>>, <<"u1", "u2">>} ]

\* a property that the text has only when cond holds
Opt(cond, r) == IF cond THEN r ELSE JObj

\* The record of results.json for the event: the properties unifyFromResultsJson reads
AsBatchRecord(e) ==
    [ j |-> "obj", vendor |-> e.vendor, ok |-> e.outcome.ok, blocked |-> e.outcome.blocked,
      ts |-> e.ts,
      timings |-> IF e.timed
                  THEN [ j |-> "obj", connect |-> Num(20, 1), tls |-> Num(30, 1),
                         ttfb |-> Num(100, 1), total |-> Num(150, 1),
                         raw |-> [ j |-> "obj", domainLookupStart |-> Num(3, 1),
                                   domainLookupEnd |-> Num(13, 1) ] ]
                  ELSE JObj,
      results |-> [i \in 1..Len(e.topk) |-> [j |-> "obj", url |-> e.topk[i]]] ]
    @@ Opt(e.outcome.reason # NULL, [blockType |-> e.outcome.reason])
    @@ Opt(IsFinite(e.conc), [conc |-> e.conc])
    @@ Opt(e.query # NULL, [query |-> e.query])

\* The stream line for the event, with the names unifyFromNdjsonFile reads: the
\* first of each pair of names when short, the second otherwise
AsStreamLine(e, short) ==
    [ j |-> "obj", vendor |-> e.vendor, ok |-> e.outcome.ok, blocked |-> e.outcome.blocked,
      ts |-> e.ts ]
    @@ Opt(e.outcome.reason # NULL,
           IF short THEN [blockType |-> e.outcome.reason] ELSE [failure_reason |-> e.outcome.reason])
    @@ Opt(IsFinite(e.conc), IF short THEN [conc |-> e.conc] ELSE [concurrency |-> e.conc])
    @@ Opt(e.timed, [ dns_ms |-> Num(10, 1), tls_ms |-> Num(30, 1), ttfb_ms |-> Num(100, 1),
                      total_ms |-> Num(150, 1) ])
    @@ Opt(e.timed, IF short THEN [connect_ms |-> Num(20, 1)] ELSE [tcp_ms |-> Num(20, 1)])
    @@ Opt(e.query # NULL, IF short THEN [q |-> e.query] ELSE [query |-> e.query])
    @@ Opt(e.topk # <<>>, IF short THEN [top10 |-> e.topk] ELSE [topk |-> e.topk])

InitUnify ==
    /\ SchedulerIdle
    /\ \E e \in LogicalEvents : \E short \in BOOLEAN :
          call = [ fn |-> "unify", event |-> e, clock |-> 9,
                   doc |-> [j |-> "obj", results |-> <<AsBatchRecord(e)>>],
                   lines |-> <<AsStreamLine(e, short)>> ]
    /\ ret = NoCall

CallUnify ==
    /\ call.fn = "unify"
    /\ ret = NoCall
    /\ ret' = [ fn |-> "unify",
                batch |-> unifyFromResultsJson(call.doc, call.clock).events,
                stream |-> unifyFromNdjsonFile(call.lines, call.clock) ]
    /\ UNCHANGED <<schedVars, call>>

NextUnify == CallUnify

SpecUnify == InitUnify /\ [][NextUnify]_vars

\* C13: an event read from a batch document and the same event read from a stream
\* line give canonical events that are equal in every field (a field that is absent
\* is null in both).
C13_CrossFormat ==
    ret.fn = "unify" => ret.batch = ret.stream

----------------------------------------------------------------------------
(* Aggregator, statistics: percentile (both copies), pstats, tailAmp *)

MaxSamples == 3      \* longest list of values drawn from SampleValues

\* Math.ceil(a / b) for a >= 0 and b > 0, in exact arithmetic
CeilDiv(a, b) == (a + b - 1) \div b

Min(a, b) == IF a <= b THEN a ELSE b

Max(a, b) == IF a >= b THEN a ELSE b

\* .slice().sort((a,b) => a - b) on finite numbers
InsertNum(s, x) ==
    LET k == Cardinality({i \in 1..Len(s) : Leq(s[i], x)})
    IN  SubSeq(s, 1, k) \o <<x>> \o SubSeq(s, k + 1, Len(s))

SortNums_none(s) == s

RECURSIVE SortNums(_)
SortNums(s) ==
    IF s = <<>> THEN <<>>
    ELSE InsertNum(SortNums(SubSeq(s, 1, Len(s) - 1)), s[Len(s)])

\* percentile(nums, p) of bench-aggregate.mjs
percentile_floor(nums, p) ==
    LET xs == SortNums(SelectSeq(nums, IsFinite))
        idx == ((p * Len(xs)) \div 100) - 1
    IN  IF Len(xs) = 0 THEN NullV
        ELSE xs[Min(Max(idx, 0), Len(xs) - 1) + 1]

percentile(nums, p) ==
    LET xs == SortNums(SelectSeq(nums, IsFinite))
        idx == CeilDiv(p * Len(xs), 100) - 1
    IN  IF Len(xs) = 0 THEN NullV
        ELSE xs[Min(Max(idx, 0), Len(xs) - 1) + 1]

\* percentile(nums, p) of bench.ts
percentile_bench(nums, p) ==
    LET xs == SortNums(SelectSeq(nums, LAMBDA n : IsFinite(n)))
    IN  IF Len(xs) = 0 THEN NullV
        ELSE LET idx == CeilDiv(p * Len(xs), 100) - 1
             IN  xs[Min(Max(idx, 0), Len(xs) - 1) + 1]

\* xs.map(e => e[field]).filter(Number.isFinite)
FieldValues(xs, field) ==
    SelectSeq([i \in 1..Len(xs) |-> OptGet(xs[i], field)], IsFinite)

pstats(xs, field) ==
    LET v == FieldValues(xs, field)
    IN  [ p50 |-> percentile(v, 50), p90 |-> percentile(v, 90),
          p95 |-> percentile(v, 95), p99 |-> percentile(v, 99) ]

\* tailAmp(xs, field)
tailAmp_nullCheck(xs, field) ==
    LET v == FieldValues(xs, field)
        p50 == percentile(v, 50)
        p99 == percentile(v, 99)
    IN  IF ~IsNullish(p50) /\ ~IsNullish(p99)
        THEN (IF p50.n = 0 THEN NaNV ELSE Quot(p99, p50))
        ELSE NullV

tailAmp(xs, field) ==
    LET v == FieldValues(xs, field)
        p50 == percentile(v, 50)
        p99 == percentile(v, 99)
    IN  IF Truthy(p50) /\ Truthy(p99) THEN Quot(p99, p50) ELSE NullV

\* The values of a list: numbers, NaN and null
SampleValues == {Num(0, 1), Num(1, 1), Num(5, 2), Num(4, 1), NaNV, NullV}

\* twenty-one values in descending order
LongNums == [i \in 1..21 |-> Num(22 - i, 1)]

Percents == {0, 50, 90, 95, 99, 100, 120}

\* the successful events of a vendor whose total latencies are nums
Samples(nums) == [i \in 1..Len(nums) |-> [ok |-> TRUE, total |-> nums[i]]]

InitStats ==
    /\ SchedulerIdle
    /\ \E nums \in {<<>>, LongNums} \cup SeqsUpTo(SampleValues, MaxSamples) : \E p \in Percents :
          call = [fn |-> "stats", nums |-> nums, p |-> p, events |-> Samples(nums)]
    /\ ret = NoCall

CallPercentile ==
    /\ call.fn = "stats"
    /\ ret = NoCall
    /\ ret' = [ fn |-> "percentile",
                out |-> percentile(call.nums, call.p),
                bench |-> percentile_bench(call.nums, call.p) ]
    /\ UNCHANGED <<schedVars, call>>

CallPstats ==
    /\ call.fn = "stats"
    /\ ret = NoCall
    /\ ret' = [fn |-> "pstats", out |-> pstats(call.events, "total")]
    /\ UNCHANGED <<schedVars, call>>

CallTailAmp ==
    /\ call.fn = "stats"
    /\ ret = NoCall
    /\ ret' = [fn |-> "tailAmp", out |-> tailAmp(call.events, "total")]
    /\ UNCHANGED <<schedVars, call>>

NextStats == CallPercentile \/ CallPstats \/ CallTailAmp

SpecStats == InitStats /\ [][NextStats]_vars

\* The finite values of the list in call, and how many of them are at most v
FiniteAt == { i \in 1..Len(call.nums) : IsFinite(call.nums[i]) }

AtMost(v) == Cardinality({ i \in FiniteAt : Leq(call.nums[i], v) })

\* the rank asked for: ceil(p/100 * n), at least 1 and at most n
Rank == Min(Cardinality(FiniteAt), Max(1, CeilDiv(call.p * Cardinality(FiniteAt), 100)))

\* C14: percentile ignores the values that are not finite; without a finite value
\* it returns null; otherwise it returns the value of nearest rank, which is the
\* least finite value v such that at least Rank values are at most v. The copy of
\* bench.ts returns the same.
C14_NearestRank ==
    ret.fn = "percentile" =>
        /\ ret.bench = ret.out
        /\ FiniteAt = {} => ret.out = NullV
        /\ FiniteAt # {} =>
              /\ \E i \in FiniteAt : call.nums[i] = ret.out
              /\ AtMost(ret.out) >= Rank
              /\ \A i \in FiniteAt : AtMost(call.nums[i]) >= Rank => Leq(ret.out, call.nums[i])

\* values that are not finite were discarded and the rank is inside the list
C14_Witness ==
    /\ ret.fn = "percentile"
    /\ call.nums = <<Num(4, 1), NaNV, Num(1, 1)>>
    /\ call.p = 50
    /\ ret.out = Num(1, 1)
    /\ ret.bench = Num(1, 1)

\* C15: for a list with at least one finite value, p50 <= p95 <= p99.
C15_Monotone ==
    (ret.fn = "pstats" /\ FiniteAt # {}) =>
        /\ IsFinite(ret.out.p50) /\ IsFinite(ret.out.p95) /\ IsFinite(ret.out.p99)
        /\ Leq(ret.out.p50, ret.out.p95)
        /\ Leq(ret.out.p95, ret.out.p99)

\* a list given in descending order whose three percentiles differ
C15_Witness ==
    /\ ret.fn = "pstats"
    /\ call.nums = LongNums
    /\ ret.out.p50 = Num(11, 1)
    /\ ret.out.p95 = Num(20, 1)
    /\ ret.out.p99 = Num(21, 1)

\* the list in call is not empty and every total is the same number c >= 0
ConstantList(c) ==
    /\ Len(call.nums) >= 1
    /\ IsFinite(c)
    /\ c.n >= 0
    /\ \A i \in 1..Len(call.nums) : call.nums[i] = c

IsOne(v) == IsFinite(v) /\ v.n = v.d

\* C17 as stated: tailAmp of a constant list is 1 for every constant c >= 0.
C17_ConstantIsOne ==
    ret.fn = "tailAmp" =>
        \A c \in SampleValues : ConstantList(c) => IsOne(ret.out)

\* C17: tailAmp of a non-empty list whose totals are one constant c is 1 when
\* c > 0, and null (unknown) when c = 0.
C17_ConstantPositiveIsOne ==
    ret.fn = "tailAmp" =>
        \A c \in SampleValues : ConstantList(c) =>
            /\ c.n > 0 => IsOne(ret.out)
            /\ c.n = 0 => ret.out = NullV

\* three events of total 2.5 gave 1
C17_Witness ==
    /\ ret.fn = "tailAmp"
    /\ call.nums = <<Num(5, 2), Num(5, 2), Num(5, 2)>>
    /\ IsOne(ret.out)

----------------------------------------------------------------------------
(* Aggregator and bench: jaccard *)

MaxItems == 2        \* longest result list

\* s.slice(0, k), new Set(s)
Take(s, k) == SubSeq(s, 1, Min(k, Len(s)))

SetOf(s) == { s[i] : i \in 1..Len(s) }

\* jaccard(a, b, k) of bench-aggregate.mjs
jaccard_overA(a, b, k) ==
    LET A == SetOf(Take(a, k))
        B == SetOf(Take(b, k))
        inter == { x \in A : x \in B }
    IN  IF A # {} THEN Num(Cardinality(inter), Cardinality(A)) ELSE NullV

jaccard(a, b, k) ==
    LET A == SetOf(Take(a, k))
        B == SetOf(Take(b, k))
        inter == { x \in A : x \in B }
        union == A \cup B
    IN  IF union # {} THEN Num(Cardinality(inter), Cardinality(union)) ELSE NullV

\* jaccard(a, b) of bench.ts
jaccard_bench(a, b) ==
    LET A == SetOf(a)
        B == SetOf(b)
        inter == { x \in A : x \in B }
        union == A \cup B
    IN  IF union # {} THEN Num(Cardinality(inter), Cardinality(union)) ELSE Num(0, 1)

ResultLists == {<<>>} \cup SeqsUpTo({"u1", "u2", "u3"}, MaxItems)

InitJaccard ==
    /\ SchedulerIdle
    /\ call \in [fn : {"jaccard"}, a : ResultLists, b : ResultLists, k : {0, 1, 2, 10}]
    /\ ret = NoCall

CallJaccard ==
    /\ call.fn = "jaccard"
    /\ ret = NoCall
    /\ ret' = [ fn |-> "jaccard",
                ab |-> jaccard(call.a, call.b, call.k),
                ba |-> jaccard(call.b, call.a, call.k),
                aa |-> jaccard(call.a, call.a, call.k),
                bench_ab |-> jaccard_bench(call.a, call.b),
                bench_ba |-> jaccard_bench(call.b, call.a),
                bench_aa |-> jaccard_bench(call.a, call.a) ]
    /\ UNCHANGED <<schedVars, call>>

NextJaccard == CallJaccard

SpecJaccard == InitJaccard /\ [][NextJaccard]_vars

\* a number between 0 and 1
InUnit(v) == IsFinite(v) => (0 <= v.n /\ v.n <= v.d)

\* C16: in both copies jaccard is symmetric, jaccard(A, A) is 1 when the first K
\* items of A are not empty, and a value that is defined lies in [0, 1].
C16_Jaccard ==
    ret.fn = "jaccard" =>
        /\ ret.ab = ret.ba
        /\ Take(call.a, call.k) # <<>> => IsOne(ret.aa)
        /\ InUnit(ret.ab) /\ InUnit(ret.aa)
        /\ ret.bench_ab = ret.bench_ba
        /\ call.a # <<>> => IsOne(ret.bench_aa)
        /\ InUnit(ret.bench_ab) /\ InUnit(ret.bench_aa)

\* two lists that differ after their first item, compared on one item and in full
C16_Witness ==
    /\ ret.fn = "jaccard"
    /\ call.a = <<"u1", "u2">>
    /\ call.b = <<"u1", "u3">>
    /\ call.k = 1
    /\ ret.ab = Num(1, 1)
    /\ ret.bench_ab = Num(1, 3)
    /\ IsOne(ret.aa)

----------------------------------------------------------------------------
(* Aggregator, metrics of one vendor against the baseline: reliability, stageOverheads *)

MaxEvents == 2       \* longest list of events of one vendor

\* /timeout/i.test(s)
TestTimeout(s) == s \in {"timeout", "Timeout exceeded"}

\* total ? n / total : null
Rate(n, total) == IF total # 0 THEN Num(n, total) ELSE NullV

\* the key of an event in the histogram of reasons
ReasonOf(e) ==
    IF e.failure_reason # NULL THEN e.failure_reason
    ELSE IF e.blockType # NULL THEN e.blockType
    ELSE IF e.blocked THEN "blocked"
    ELSE IF e.ok THEN "success" ELSE "error"

reliability(arr) ==
    LET total == Len(arr)
        ok == Len(SelectSeq(arr, LAMBDA e : e.ok))
        blocked == Len(SelectSeq(arr, LAMBDA e : e.blocked))
        captcha == Len(SelectSeq(arr, LAMBDA e : e.captcha))
        timeouts == Len(SelectSeq(arr, LAMBDA e : e.failure_reason # NULL /\ TestTimeout(e.failure_reason)))
    IN  [ total |-> total, ok |-> ok, blocked |-> blocked, captcha |-> captcha,
          timeouts |-> timeouts,
          successRate |-> Rate(ok, total),
          blockedRate |-> Rate(blocked, total),
          captchaRate |-> Rate(captcha, total),
          timeoutRate |-> Rate(timeouts, total),
          reasons |-> [r \in {ReasonOf(arr[i]) : i \in 1..Len(arr)} |->
                          Len(SelectSeq(arr, LAMBDA e : ReasonOf(e) = r))] ]

pickSuccesses(arr) == SelectSeq(arr, LAMBDA e : e.ok)

\* a + b, (Number.isFinite(v) ? v : 0), (Number.isFinite(v) ? v : null)
Plus(a, b) == Num(a.n * b.d + b.n * a.d, a.d * b.d)

FiniteOrZero(v) == IF IsFinite(v) THEN v ELSE Num(0, 1)

FiniteOrNull(v) == IF IsFinite(v) THEN v ELSE NullV

\* stageOverheads, the return when a side has no success
StagesEarly(sD, haveD) ==
    [ dns_p95 |-> [direct |-> IF haveD THEN pstats(sD, "dns").p95 ELSE NullV, proxy |-> NullV],
      tcp_p95 |-> [direct |-> IF haveD THEN pstats(sD, "connect").p95 ELSE NullV, proxy |-> NullV],
      tls_p95 |-> [direct |-> IF haveD THEN pstats(sD, "tls").p95 ELSE NullV, proxy |-> NullV],
      ttfb_p95 |-> [direct |-> IF haveD THEN pstats(sD, "ttfb").p95 ELSE NullV, proxy |-> NullV],
      pre_origin_overhead_ms |-> NullV,
      ttfb_overhead_ms |-> NullV ]

\* stageOverheads, the return when both sides have successes
StagesBoth(sD, sP) ==
    LET p95DnsD == pstats(sD, "dns").p95
        p95ConD == pstats(sD, "connect").p95
        p95TlsD == pstats(sD, "tls").p95
        p95DnsP == pstats(sP, "dns").p95
        p95ConP == pstats(sP, "connect").p95
        p95TlsP == pstats(sP, "tls").p95
        preOriginDirect == Plus(Plus(FiniteOrZero(p95DnsD), FiniteOrZero(p95ConD)), FiniteOrZero(p95TlsD))
        preOriginProxy == Plus(Plus(FiniteOrZero(p95DnsP), FiniteOrZero(p95ConP)), FiniteOrZero(p95TlsP))
        preOriginOverhead == IF IsFinite(preOriginProxy) /\ IsFinite(preOriginDirect)
                             THEN Minus(preOriginProxy, preOriginDirect) ELSE NullV
        ttfbD == pstats(sD, "ttfb").p95
        ttfbP == pstats(sP, "ttfb").p95
        ttfbOverhead == IF IsFinite(ttfbP) /\ IsFinite(ttfbD) THEN Minus(ttfbP, ttfbD) ELSE NullV
    IN  [ dns_p95 |-> [direct |-> FiniteOrNull(p95DnsD), proxy |-> FiniteOrNull(p95DnsP)],
          tcp_p95 |-> [direct |-> FiniteOrNull(p95ConD), proxy |-> FiniteOrNull(p95ConP)],
          tls_p95 |-> [direct |-> FiniteOrNull(p95TlsD), proxy |-> FiniteOrNull(p95TlsP)],
          ttfb_p95 |-> [direct |-> FiniteOrNull(ttfbD), proxy |-> FiniteOrNull(ttfbP)],
          pre_origin_overhead_ms |-> FiniteOrNull(preOriginOverhead),
          ttfb_overhead_ms |-> FiniteOrNull(ttfbOverhead) ]

stageOverheads_noGuard(vDirect, vProxy) == StagesBoth(pickSuccesses(vDirect), pickSuccesses(vProxy))

stageOverheads(vDirect, vProxy) ==
    LET sD == pickSuccesses(vDirect)
        sP == pickSuccesses(vProxy)
        haveD == Len(sD) > 0
        haveP == Len(sP) > 0
    IN  IF ~haveD \/ ~haveP THEN StagesEarly(sD, haveD) ELSE StagesBoth(sD, sP)

\* a * (n / d), a > b
Times(a, n, d) == Num(a.n * n, a.d * d)

Gt(a, b) == ~Leq(a, b)

\* quickDiagnosis(relProxy, stages)
quickDiagnosis(relProxy, stages) ==
    LET blockedHigh == Gt(IF Truthy(relProxy.blockedRate) THEN relProxy.blockedRate ELSE Num(0, 1),
                          Num(15, 100))
        havePre == \A v \in { stages.dns_p95.proxy, stages.dns_p95.direct, stages.tcp_p95.proxy,
                              stages.tcp_p95.direct, stages.tls_p95.proxy, stages.tls_p95.direct } :
                      IsFinite(v)
        haveTTFB == IsFinite(stages.ttfb_p95.proxy) /\ IsFinite(stages.ttfb_p95.direct)
        preOk == /\ Leq(stages.dns_p95.proxy, Times(stages.dns_p95.direct, 3, 2))
                 /\ Leq(stages.tcp_p95.proxy, Times(stages.tcp_p95.direct, 3, 2))
                 /\ Leq(stages.tls_p95.proxy, Times(stages.tls_p95.direct, 3, 2))
    IN  IF ~havePre /\ blockedHigh
        THEN "Likely target ban/blocks; insufficient proxy successes to assess stages"
        ELSE IF ~havePre THEN "Insufficient successful samples to assess stage timings"
        ELSE IF ~preOk THEN "Likely network/egress issues (pre-origin p95s spiking on proxy)"
        ELSE IF haveTTFB /\ Gt(stages.ttfb_p95.proxy, Times(stages.ttfb_p95.direct, 17, 10))
        THEN "Likely target throttling (proxy TTFB p95 balloons)"
        ELSE "No obvious single root-cause; inspect vendor/session-level logs"

\* Stream lines of one vendor: successes with all stage timings, without dns and
\* connect, without any timing; a blocked attempt; a line with ok and blocked both true
LineKinds ==
    { [ j |-> "obj", ok |-> TRUE, dns_ms |-> Num(10, 1), connect_ms |-> Num(20, 1),
        tls_ms |-> Num(30, 1), ttfb_ms |-> Num(100, 1), total_ms |-> Num(150, 1) ],
      [ j |-> "obj", ok |-> TRUE, dns_ms |-> Num(15, 1), connect_ms |-> Num(25, 1),
        tls_ms |-> Num(40, 1), ttfb_ms |-> Num(200, 1), total_ms |-> Num(300, 1) ],
      [ j |-> "obj", ok |-> TRUE, tls_ms |-> Num(30, 1), ttfb_ms |-> Num(100, 1) ],
      [ j |-> "obj", ok |-> TRUE ],
      [ j |-> "obj", ok |-> FALSE, blocked |-> TRUE, captcha |-> TRUE,
        failure_reason |-> "captcha/block-page" ],
      [ j |-> "obj", ok |-> TRUE, blocked |-> TRUE, dns_ms |-> Num(10, 1) ] }

LinesOf(kinds, vendor) == [i \in 1..Len(kinds) |-> kinds[i] @@ [vendor |-> vendor]]

KindLists == {<<>>} \cup SeqsUpTo(LineKinds, MaxEvents)

InitMetrics ==
    /\ SchedulerIdle
    /\ \E d \in KindLists : \E p \in KindLists :
          call = [ fn |-> "metrics", clock |-> 9,
                   direct |-> LinesOf(d, "direct"), proxy |-> LinesOf(p, "vendorA") ]
    /\ ret = NoCall

\* One iteration of the loop of main over the vendors, on the events of the two files
CallMetrics ==
    /\ call.fn = "metrics"
    /\ ret = NoCall
    /\ LET vD == unifyFromNdjsonFile(call.direct, call.clock)
           vP == unifyFromNdjsonFile(call.proxy, call.clock)
       IN  ret' = [ fn |-> "metrics", vD |-> vD, vP |-> vP,
                    relD |-> reliability(vD),
                    relP |-> reliability(vP),
                    stages |-> stageOverheads(vD, vP),
                    diag |-> quickDiagnosis(reliability(vP), stageOverheads(vD, vP)) ]
    /\ UNCHANGED <<schedVars, call>>

NextMetrics == CallMetrics

SpecMetrics == InitMetrics /\ [][NextMetrics]_vars

\* C18: the counts of reliability partition a non-empty list of normalized events:
\* ok + blocked + (neither ok nor blocked) = total, and no event is both ok and blocked.
C18_Partition ==
    (ret.fn = "metrics" /\ ret.relP.total >= 1) =>
        /\ ret.relP.ok + ret.relP.blocked + Len(SelectSeq(ret.vP, LAMBDA e : ~e.ok /\ ~e.blocked))
              = ret.relP.total
        /\ \A i \in 1..Len(ret.vP) : ~(ret.vP[i].ok /\ ret.vP[i].blocked)

\* a side has a successful event, with a finite value of the field
HasSuccess(events) == \E i \in 1..Len(events) : events[i].ok

HasTimed(events, field) == \E i \in 1..Len(events) : events[i].ok /\ IsFinite(events[i][field])

StageNames == {"dns_p95", "tcp_p95", "tls_p95", "ttfb_p95"}

StageField(s) ==
    CASE s = "dns_p95" -> "dns" [] s = "tcp_p95" -> "connect"
      [] s = "tls_p95" -> "tls" [] OTHER -> "ttfb"

\* C19 as stated: when a side has no successful event, every value of the
\* structure is unknown, the p95 of each stage on both sides included.
C19_AllUnknown ==
    (ret.fn = "metrics" /\ (~HasSuccess(ret.vD) \/ ~HasSuccess(ret.vP))) =>
        /\ ret.stages.pre_origin_overhead_ms = NullV
        /\ ret.stages.ttfb_overhead_ms = NullV
        /\ \A s \in StageNames : ret.stages[s].direct = NullV /\ ret.stages[s].proxy = NullV

\* C19: when a side has no successful event, the two overheads and the p95 of
\* each stage on the vendor side are unknown; the p95 of a stage on the baseline
\* side is known exactly when a successful baseline event has that timing.
C19_OverheadsUnknown ==
    (ret.fn = "metrics" /\ (~HasSuccess(ret.vD) \/ ~HasSuccess(ret.vP))) =>
        /\ ret.stages.pre_origin_overhead_ms = NullV
        /\ ret.stages.ttfb_overhead_ms = NullV
        /\ \A s \in StageNames :
              /\ ret.stages[s].proxy = NullV
              /\ IsFinite(ret.stages[s].direct) <=> HasTimed(ret.vD, StageField(s))

\* the vendor has events but no success, the baseline has a success with timings
C19_Witness ==
    /\ ret.fn = "metrics"
    /\ Len(ret.vP) >= 1
    /\ ~HasSuccess(ret.vP)
    /\ ret.stages.dns_p95.direct = Num(10, 1)
    /\ ret.stages.ttfb_p95.direct = Num(100, 1)
    /\ ret.stages.pre_origin_overhead_ms = NullV

\* C20: when both sides have successes and no successful event has a dns or a
\* connect timing, the p95 of these stages and the pre-origin overhead are unknown.
C20_MissingIsUnknown ==
    ( /\ ret.fn = "metrics"
      /\ HasSuccess(ret.vD) /\ HasSuccess(ret.vP)
      /\ ~HasTimed(ret.vD, "dns") /\ ~HasTimed(ret.vD, "connect")
      /\ ~HasTimed(ret.vP, "dns") /\ ~HasTimed(ret.vP, "connect") ) =>
        /\ ret.stages.dns_p95 = [direct |-> NullV, proxy |-> NullV]
        /\ ret.stages.tcp_p95 = [direct |-> NullV, proxy |-> NullV]
        /\ ret.stages.pre_origin_overhead_ms = NullV

----------------------------------------------------------------------------
(* Aggregator, correctness and the choice of the baseline: correctnessJaccard, main *)

MaxLines == 3        \* longest stream of lines with a query

\* a = b on numbers
RatEq(a, b) == a.n * b.d = b.n * a.d

\* scores.reduce((s,x) => s+x, 0)
RECURSIVE SumNums(_)
SumNums(s) == IF s = <<>> THEN Num(0, 1) ELSE Plus(Head(s), SumNums(Tail(s)))

\* scores.length ? sum / scores.length : null
Mean(scores) ==
    IF Len(scores) = 0 THEN NullV
    ELSE LET sum == SumNums(scores) IN Num(sum.n, sum.d * Len(scores))

\* the values of s without repetition, in the order in which they first appear
\* (the order of the keys of an object filled in that order)
RECURSIVE Distinct(_)
Distinct(s) ==
    IF s = <<>> THEN <<>>
    ELSE LET d == Distinct(SubSeq(s, 1, Len(s) - 1))
         IN  IF s[Len(s)] \in SetOf(d) THEN d ELSE Append(d, s[Len(s)])

\* Object.keys(byVQ), Object.keys(byVQ[v]) and byVQ[v][q] after the first loop of
\* correctnessJaccard: of the events of v with query q, the last one of arr
KeyedEvents(arr) == SelectSeq(arr, LAMBDA e : e.query # NULL)

KeyedVendors(arr) == Distinct([i \in 1..Len(KeyedEvents(arr)) |-> KeyedEvents(arr)[i].vendor])

EventsOf(arr, v, q) == SelectSeq(arr, LAMBDA e : e.query = q /\ e.vendor = v)

KeyedQueries(arr, v) ==
    Distinct([i \in 1..Len(SelectSeq(KeyedEvents(arr), LAMBDA e : e.vendor = v)) |->
                 SelectSeq(KeyedEvents(arr), LAMBDA e : e.vendor = v)[i].query])

Keyed(arr, v, q) == LET es == EventsOf(arr, v, q) IN es[Len(es)]

\* the entry of vendor v in out.vendors, for v other than the baseline
VendorScore(arr, base, v, k) ==
    LET commonQs == SelectSeq(KeyedQueries(arr, v), LAMBDA q : EventsOf(arr, base, q) # <<>>)
        all == [i \in 1..Len(commonQs) |->
                   jaccard(Keyed(arr, base, commonQs[i]).topk, Keyed(arr, v, commonQs[i]).topk, k)]
        scores == SelectSeq(all, LAMBDA s : ~IsNullish(s))
    IN  [avg |-> Mean(scores), count |-> Len(scores)]

\* correctnessJaccard(arr, baselineVendor, k): vendors is a function on the names
correctnessJaccard(arr, baselineVendor, k) ==
    LET vendorNames == KeyedVendors(arr)
        base == IF baselineVendor \notin SetOf(vendorNames) /\ Len(vendorNames) > 0
                THEN vendorNames[1] ELSE baselineVendor
    IN  [ baseline |-> base,
          vendors |-> [v \in SetOf(vendorNames) \cup {base} |->
                          IF v = base
                          THEN [avg |-> Num(1, 1), count |-> Len(KeyedQueries(arr, base))]
                          ELSE VendorScore(arr, base, v, k)] ]

\* groupByVendor(events)[v] || []
ByVendor(events, v) == SelectSeq(events, LAMBDA e : e.vendor = v)

\* main: the baseline name, and for each other vendor the two event lists and the
\* correctness entry that are passed on to the metrics
DirectName(events, baseline) ==
    LET vendorNames == Distinct([i \in 1..Len(events) |-> events[i].vendor])
    IN  IF baseline \in SetOf(vendorNames) THEN baseline ELSE "direct"

CompareVendors(events, baseline, topk) ==
    LET vendorNames == Distinct([i \in 1..Len(events) |-> events[i].vendor])
        directName == DirectName(events, baseline)
        others == SelectSeq(vendorNames, LAMBDA v : v # directName)
    IN  [i \in 1..Len(others) |->
            LET vD == ByVendor(events, directName)
                vP == ByVendor(events, others[i])
                corrAll == correctnessJaccard(vD \o vP, directName, topk)
            IN  [ vendor |-> others[i], directName |-> directName, vD |-> vD, vP |-> vP,
                  corrBaseline |-> corrAll.baseline,
                  corr |-> IF others[i] \in DOMAIN corrAll.vendors
                           THEN corrAll.vendors[others[i]] ELSE UndefV ] ]

\* Stream lines: three vendors, two queries, a success with one of two result
\* lists or a failure without results, or a line without a query; the i-th line
\* of the stream has timestamp i
QueryLines ==
    { l @@ [j |-> "obj"] :
        l \in [vendor : {"direct", "vendorA", "vendorB"}, q : {"q1", "q2"}, ok : {TRUE},
               top10 : {<<"u1", "u2">>, <<"u1", "u3">>}]
          \cup [vendor : {"direct", "vendorA", "vendorB"}, q : {"q1", "q2"}, ok : {FALSE}]
          \cup [vendor : {"vendorA"}, ok : {TRUE}] }

Stamped(lines) == [i \in 1..Len(lines) |-> lines[i] @@ [ts |-> Num(i, 1)]]

InitCompare ==
    /\ SchedulerIdle
    /\ \E lines \in SeqsUpTo(QueryLines, MaxLines) :
          call = [fn |-> "compare", baseline |-> "direct", topk |-> 10, clock |-> 9,
                  lines |-> Stamped(lines)]
    /\ ret = NoCall

\* main, from loadAll to the entry of each vendor
CallCompare ==
    /\ call.fn = "compare"
    /\ ret = NoCall
    /\ LET events == SortByTs(unifyFromNdjsonFile(call.lines, call.clock))
       IN  ret' = [ fn |-> "compare", events |-> events,
                    rows |-> CompareVendors(events, call.baseline, call.topk) ]
    /\ UNCHANGED <<schedVars, call>>

NextCompare == CallCompare

SpecCompare == InitCompare /\ [][NextCompare]_vars

\* The queries for which a list of events has a success, and the latest success
OkQueries(events) == { events[i].query : i \in {n \in 1..Len(events) : events[n].ok /\ events[n].query # NULL} }

LatestOk(events, q) ==
    LET oks == SelectSeq(events, LAMBDA e : e.ok /\ e.query = q) IN oks[Len(oks)]

RECURSIVE SeqOfSet(_)
SeqOfSet(S) == IF S = {} THEN <<>> ELSE LET x == CHOOSE x \in S : TRUE IN <<x>> \o SeqOfSet(S \ {x})

\* the score the claim describes for a row: the mean over the shared queries of
\* the Jaccard value of the latest successes
ExpectedScore(row) ==
    LET shared == SeqOfSet(OkQueries(row.vD) \cap OkQueries(row.vP))
    IN  Mean([i \in 1..Len(shared) |->
                 jaccard(LatestOk(row.vD, shared[i]).topk, LatestOk(row.vP, shared[i]).topk, call.topk)])

SameScore(a, b) == IF IsFinite(a) /\ IsFinite(b) THEN RatEq(a, b) ELSE IsFinite(a) = IsFinite(b)

\* C21: the correctness score of a vendor is the mean of the first-K Jaccard values
\* over the queries for which the vendor and the baseline both have a success, on
\* the most recent success of each; it is unknown when there is no such query.
C21_SharedSuccesses ==
    ret.fn = "compare" =>
        \A i \in 1..Len(ret.rows) :
            ret.rows[i].directName = "direct" /\ ret.rows[i].vD # <<>> =>
                SameScore(OptGet(ret.rows[i].corr, "avg"), ExpectedScore(ret.rows[i]))

\* C25: when no event belongs to the configured baseline, the first vendor of the
\* events is the baseline of every row, for the metrics and for correctness; no
\* row has an empty baseline or scores a vendor against itself.
C25_FallbackBaseline ==
    (ret.fn = "compare" /\ \A i \in 1..Len(ret.events) : ret.events[i].vendor # call.baseline) =>
        \A i \in 1..Len(ret.rows) :
            /\ ret.rows[i].directName = ret.events[1].vendor
            /\ ret.rows[i].corrBaseline = ret.events[1].vendor
            /\ ret.rows[i].vD # <<>>
            /\ ret.rows[i].vendor # ret.rows[i].directName
            /\ ret.rows[i].vendor # ret.rows[i].corrBaseline

----------------------------------------------------------------------------
(* Aggregator, success against concurrency: concurrencyCurve *)

MaxTagged == 3       \* longest list of events given to concurrencyCurve

\* a key of byC that is an array index: Object.entries lists these first, in
\* ascending order, and the other keys after them in the order of insertion
IsIndex(c) == c.d = 1 /\ c.n >= 0

EntryKeys(arr) ==
    LET tagged == SelectSeq(arr, LAMBDA e : IsFinite(e.conc))
        keys == Distinct([i \in 1..Len(tagged) |-> tagged[i].conc])
    IN  SortNums(SelectSeq(keys, IsIndex)) \o SelectSeq(keys, LAMBDA c : ~IsIndex(c))

\* the point pushed for the key c
CurvePoint(arr, c) ==
    LET events == SelectSeq(arr, LAMBDA e : IsFinite(e.conc) /\ e.conc = c)
        ok == SelectSeq(events, LAMBDA e : e.ok)
    IN  [ concurrency |-> c,
          successRate |-> Num(Len(ok), Len(events)),
          SRT_p95 |-> FiniteOrNull(percentile(FieldValues(ok, "total"), 95)),
          samples |-> Len(events) ]

\* out.sort((a,b) => a.concurrency - b.concurrency)
InsertPoint(s, x) ==
    LET k == Cardinality({i \in 1..Len(s) : Leq(s[i].concurrency, x.concurrency)})
    IN  SubSeq(s, 1, k) \o <<x>> \o SubSeq(s, k + 1, Len(s))

RECURSIVE SortPoints(_)
SortPoints(s) ==
    IF s = <<>> THEN <<>>
    ELSE InsertPoint(SortPoints(SubSeq(s, 1, Len(s) - 1)), s[Len(s)])

concurrencyCurve_unsorted(arr) ==
    [i \in 1..Len(EntryKeys(arr)) |-> CurvePoint(arr, EntryKeys(arr)[i])]

concurrencyCurve(arr) ==
    SortPoints([i \in 1..Len(EntryKeys(arr)) |-> CurvePoint(arr, EntryKeys(arr)[i])])

\* Stream lines of one vendor: without a concurrency tag or with the tag 1, 10
\* or 2.5, a success with a total latency or a failure
TaggedLines ==
    { [j |-> "obj", vendor |-> "vendorA", ok |-> TRUE, total_ms |-> Num(100, 1)],
      [j |-> "obj", vendor |-> "vendorA", ok |-> FALSE] }
    \cup { [j |-> "obj", vendor |-> "vendorA", ok |-> TRUE, total_ms |-> Num(100, 1), conc |-> c] :
              c \in {Num(1, 1), Num(10, 1), Num(5, 2)} }
    \cup { [j |-> "obj", vendor |-> "vendorA", ok |-> FALSE, concurrency |-> c] :
              c \in {Num(1, 1), Num(10, 1), Num(5, 2)} }

InitCurve ==
    /\ SchedulerIdle
    /\ \E lines \in {<<>>} \cup SeqsUpTo(TaggedLines, MaxTagged) :
          call = [fn |-> "curve", clock |-> 9, lines |-> lines]
    /\ ret = NoCall

CallCurve ==
    /\ call.fn = "curve"
    /\ ret = NoCall
    /\ LET vP == unifyFromNdjsonFile(call.lines, call.clock)
       IN  ret' = [fn |-> "curve", vP |-> vP, conc |-> concurrencyCurve(vP)]
    /\ UNCHANGED <<schedVars, call>>

NextCurve == CallCurve

SpecCurve == InitCurve /\ [][NextCurve]_vars

\* the events of ret.vP that have a concurrency tag
TaggedAt == { i \in 1..Len(ret.vP) : IsFinite(ret.vP[i].conc) }

\* C23: concurrencyCurve returns one point for each concurrency value of the events
\* and no other point, in strictly ascending order of concurrency; the samples of a
\* point count the events of its value, so that an event without a tag is in no
\* point and the samples add up to the number of tagged events.
C23_OnePointPerValue ==
    ret.fn = "curve" =>
        /\ { ret.conc[i].concurrency : i \in 1..Len(ret.conc) } = { ret.vP[i].conc : i \in TaggedAt }
        /\ \A i, k \in 1..Len(ret.conc) :
              i < k => /\ Leq(ret.conc[i].concurrency, ret.conc[k].concurrency)
                       /\ ret.conc[i].concurrency # ret.conc[k].concurrency
        /\ \A i \in 1..Len(ret.conc) :
              ret.conc[i].samples =
                  Cardinality({ n \in TaggedAt : ret.vP[n].conc = ret.conc[i].concurrency })
        /\ SumSeq([i \in 1..Len(ret.conc) |-> ret.conc[i].samples]) = Cardinality(TaggedAt)

\* events tagged 10 and 2.5 and an event without a tag gave the points of 2.5 and 10
C23_Witness ==
    /\ ret.fn = "curve"
    /\ Len(ret.vP) = 3
    /\ Cardinality(TaggedAt) = 2
    /\ ret.vP[1].conc = Num(10, 1)
    /\ Len(ret.conc) = 2
    /\ ret.conc[1].concurrency = Num(5, 2)
    /\ ret.conc[2].concurrency = Num(10, 1)
    /\ ret.conc[1].samples = 1

----------------------------------------------------------------------------
(* Aggregator, survival of sticky sessions: stickySurvival *)

MaxSession == 4      \* longest list of events given to stickySurvival

\* e.session_id || e.ip
SessionKey(e) == IF e.session_id # NULL /\ e.session_id # "" THEN e.session_id ELSE e.ip

\* Object.values(byS): the groups in the order in which their keys first appear
SessionKeys(arr) ==
    LET keyed == SelectSeq(arr, LAMBDA e : SessionKey(e) # NULL /\ SessionKey(e) # "")
    IN  Distinct([i \in 1..Len(keyed) |-> SessionKey(keyed[i])])

\* the loop over the events of a group: the successes before the first failure
RECURSIVE Survived(_)
Survived(events) ==
    IF events = <<>> THEN [count |-> 0, failed |-> FALSE]
    ELSE IF Head(events).ok
         THEN LET rest == Survived(Tail(events))
              IN  [count |-> rest.count + 1, failed |-> rest.failed]
         ELSE [count |-> 0, failed |-> TRUE]

SessionGroup_unsorted(arr, k) == SelectSeq(arr, LAMBDA e : SessionKey(e) = k)

SessionGroup(arr, k) == SortByTs(SelectSeq(arr, LAMBDA e : SessionKey(e) = k))

stickySurvival(arr) ==
    LET runs == [i \in 1..Len(SessionKeys(arr)) |-> Survived(SessionGroup(arr, SessionKeys(arr)[i]))]
        failed == SelectSeq(runs, LAMBDA r : r.failed)
        lengths == [i \in 1..Len(failed) |-> Num(failed[i].count, 1)]
    IN  [ p50 |-> IF Len(lengths) > 0 THEN percentile(lengths, 50) ELSE NullV,
          p90 |-> IF Len(lengths) > 0 THEN percentile(lengths, 90) ELSE NullV,
          samples |-> Len(lengths),
          censored |-> Len(SelectSeq(runs, LAMBDA r : ~r.failed)) ]

\* Stream lines of one vendor: of the session s1 or, without a session, of the
\* address ip1, a success or a failure, at time 1 or 2; a line of the session s1
\* that also has the address; a line with neither
SessionLines ==
    { l @@ [j |-> "obj", vendor |-> "vendorA"] :
        l \in [session_id : {"s1"}, ok : BOOLEAN, ts : {Num(1, 1), Num(2, 1)}]
          \cup [ip : {"ip1"}, ok : BOOLEAN, ts : {Num(1, 1), Num(2, 1)}]
          \cup [session : {"s1"}, ip : {"ip1"}, ok : {FALSE}, ts : {Num(1, 1)}]
          \cup [ok : {TRUE}, ts : {Num(1, 1)}] }

InitSticky ==
    /\ SchedulerIdle
    /\ \E lines \in {<<>>} \cup SeqsUpTo(SessionLines, MaxSession) :
          call = [fn |-> "sticky", clock |-> 9, lines |-> lines]
    /\ ret = NoCall

CallSticky ==
    /\ call.fn = "sticky"
    /\ ret = NoCall
    /\ LET vP == unifyFromNdjsonFile(call.lines, call.clock)
       IN  ret' = [fn |-> "sticky", vP |-> vP, sticky |-> stickySurvival(vP)]
    /\ UNCHANGED <<schedVars, call>>

NextSticky == CallSticky

SpecSticky == InitSticky /\ [][NextSticky]_vars

\* The groups of ret.vP: the session of an event, its address when it has no
\* session; the events at the positions of a group
GroupOf(e) == IF e.session_id # NULL THEN <<"session", e.session_id>> ELSE <<"ip", e.ip>>

Grouped == { i \in 1..Len(ret.vP) : ret.vP[i].session_id # NULL \/ ret.vP[i].ip # NULL }

Groups == { GroupOf(ret.vP[i]) : i \in Grouped }

Members(g) == { i \in Grouped : GroupOf(ret.vP[i]) = g }

\* position i comes before position k in time order (the earlier line first when
\* the times are equal)
Before(i, k) ==
    \/ ~Leq(ret.vP[k].ts, ret.vP[i].ts)
    \/ ret.vP[i].ts = ret.vP[k].ts /\ i < k

HasFailure(g) == \E i \in Members(g) : ~ret.vP[i].ok

\* the successes of the group that come before each of its failures
Streak(g) ==
    Cardinality({ i \in Members(g) :
                    ret.vP[i].ok /\ \A k \in Members(g) : ~ret.vP[k].ok => Before(i, k) })

FailedGroups == { g \in Groups : HasFailure(g) }

Streaks == LET gs == SeqOfSet(FailedGroups) IN [i \in 1..Len(gs) |-> Num(Streak(gs[i]), 1)]

\* C22: the events are grouped by session, by address without a session; a group
\* with a failure contributes the number of its successes that precede its first
\* failure in time order to p50 and p90, a group without failure adds 1 to
\* censored, and samples + censored is the number of groups.
C22_SurvivalLengths ==
    ret.fn = "sticky" =>
        /\ ret.sticky.samples = Cardinality(FailedGroups)
        /\ ret.sticky.censored = Cardinality(Groups \ FailedGroups)
        /\ ret.sticky.samples + ret.sticky.censored = Cardinality(Groups)
        /\ ret.sticky.p50 = percentile(Streaks, 50)
        /\ ret.sticky.p90 = percentile(Streaks, 90)

\* the failure of a session came first in the file and last in time, after three
\* successes
C22_Witness ==
    /\ ret.fn = "sticky"
    /\ Len(ret.vP) = 4
    /\ ~ret.vP[1].ok /\ ret.vP[1].ts = Num(2, 1)
    /\ \A i \in 2..4 : ret.vP[i].ok /\ ret.vP[i].ts = Num(1, 1) /\ ret.vP[i].session_id = "s1"
    /\ ret.vP[1].session_id = "s1"
    /\ ret.sticky.p50 = Num(3, 1)
    /\ ret.sticky.samples = 1
    /\ ret.sticky.censored = 0

----------------------------------------------------------------------------
(* Aggregator, the diagnostic hint: quickDiagnosis *)

\* more than 15% of the events of the vendor are blocked
BlockedHigh == IsFinite(ret.relP.blockedRate) /\ Gt(ret.relP.blockedRate, Num(15, 100))

\* the p95 of dns, connect and tls is known on both sides and the vendor's is at
\* most 1.5 times the baseline's
PreOriginNormal ==
    \A s \in {"dns_p95", "tcp_p95", "tls_p95"} :
        /\ IsFinite(ret.stages[s].proxy)
        /\ IsFinite(ret.stages[s].direct)
        /\ Leq(ret.stages[s].proxy, Times(ret.stages[s].direct, 3, 2))

\* C24: ban/blocking is the first branch of the decision tree: a vendor with a high
\* blocked rate and normal pre-origin p95s gets the ban/blocking hint.
C24_BanFirst ==
    (ret.fn = "metrics" /\ BlockedHigh /\ PreOriginNormal) =>
        ret.diag = "Likely target ban/blocks; insufficient proxy successes to assess stages"

----------------------------------------------------------------------------
(* Probe adapter and normalizer, stage timings: computeDurations, unifyFromResultsJson *)

\* (a && b) ? Math.max(0, b - a) : null on two timestamps
Span(from, to) == IF Truthy(to) /\ Truthy(from) THEN MaxZero(Minus(to, from)) ELSE NullV

\* computeDurations(t); startTime and fetchStart are never undefined in an entry
computeDurations(t) ==
    [ connect |-> Span(t.connectStart, t.connectEnd),
      tls |-> IF Truthy(t.secureConnectionStart) /\ Truthy(t.connectEnd) /\ t.secureConnectionStart.n > 0
              THEN MaxZero(Minus(t.connectEnd, t.secureConnectionStart)) ELSE NullV,
      ttfb |-> Span(t.requestStart, t.responseStart),
      contentDownload |-> Span(t.responseStart, t.responseEnd),
      dcl |-> IF Truthy(t.domContentLoadedEventEnd) /\ t.domContentLoadedEventEnd.n > 0
              THEN MaxZero(Minus(t.domContentLoadedEventEnd, t.startTime)) ELSE NullV,
      load |-> IF Truthy(t.loadEventEnd) /\ t.loadEventEnd.n > 0
               THEN MaxZero(Minus(t.loadEventEnd, t.startTime)) ELSE NullV,
      total |-> IF Truthy(t.loadEventEnd) /\ t.loadEventEnd.n > 0
                THEN MaxZero(Minus(t.loadEventEnd, t.fetchStart))
                ELSE IF Truthy(t.domContentLoadedEventEnd) /\ t.domContentLoadedEventEnd.n > 0
                THEN MaxZero(Minus(t.domContentLoadedEventEnd, t.fetchStart))
                ELSE IF Truthy(t.responseEnd)
                THEN MaxZero(Minus(t.responseEnd, t.fetchStart))
                ELSE NullV ]

\* The navigation entry of a page: a timestamp is 0 when the browser has none
NavigationTimings ==
    [ startTime : {Num(0, 1)},
      fetchStart : {Num(1, 1), Num(70, 1)},
      domainLookupStart : {Num(0, 1), Num(5, 1)},
      domainLookupEnd : {Num(0, 1), Num(3, 1), Num(8, 1)},
      connectStart : {Num(0, 1), Num(8, 1), Num(12, 1)},
      secureConnectionStart : {Num(0, 1), Num(9, 1), Num(11, 1)},
      connectEnd : {Num(0, 1), Num(10, 1)},
      requestStart : {Num(0, 1), Num(10, 1)},
      responseStart : {Num(0, 1), Num(9, 1), Num(30, 1)},
      responseEnd : {Num(0, 1), Num(40, 1)},
      domContentLoadedEventEnd : {Num(0, 1), Num(50, 1)},
      loadEventEnd : {Num(0, 1), Num(60, 1)} ]

InitDurations ==
    /\ SchedulerIdle
    /\ \E t \in NavigationTimings : call = [fn |-> "durations", clock |-> 9, t |-> t]
    /\ ret = NoCall

\* The timings of the event that searchGoogleDetailed returns for the entry, and
\* the event that unifyFromResultsJson makes of its record in results.json
CallDurations ==
    /\ call.fn = "durations"
    /\ ret = NoCall
    /\ LET durs == computeDurations(call.t)
           record == [ j |-> "obj", vendor |-> "vendorA", ok |-> TRUE, blocked |-> FALSE,
                       ts |-> Num(1, 1), query |-> "q1",
                       timings |-> durs @@ [j |-> "obj", raw |-> call.t @@ [j |-> "obj"]] ]
       IN  ret' = [ fn |-> "durations", durs |-> durs,
                    event |-> unifyFromResultsJson([j |-> "obj", results |-> <<record>>],
                                                   call.clock).events[1] ]
    /\ UNCHANGED <<schedVars, call>>

NextDurations == CallDurations

SpecDurations == InitDurations /\ [][NextDurations]_vars

\* The two raw timestamps of a stage
RawFrom(stage) ==
    CASE stage = "dns" -> call.t.domainLookupStart
      [] stage = "connect" -> call.t.connectStart
      [] stage = "tls" -> call.t.secureConnectionStart
      [] stage = "ttfb" -> call.t.requestStart
      [] OTHER -> call.t.responseStart

RawTo(stage) ==
    CASE stage = "dns" -> call.t.domainLookupEnd
      [] stage = "connect" -> call.t.connectEnd
      [] stage = "tls" -> call.t.connectEnd
      [] stage = "ttfb" -> call.t.responseStart
      [] OTHER -> call.t.responseEnd

\* a timing is absent, or it is a number >= 0 that is the difference of the two
\* timestamps of its stage
AbsentOrDifference(v, stage) ==
    v = NullV \/ ( /\ IsFinite(v)
                   /\ v.n >= 0
                   /\ Leq(RawFrom(stage), RawTo(stage))
                   /\ v = Minus(RawTo(stage), RawFrom(stage)) )

\* C27: each stage timing of a produced event and of its normalized event is absent
\* or a number >= 0, and it is present only when the difference of its two raw
\* timestamps is >= 0: a negative difference gives an absent timing, not 0.
C27_StageTimings ==
    ret.fn = "durations" =>
        /\ \A stage \in {"connect", "tls", "ttfb", "contentDownload"} :
              AbsentOrDifference(ret.durs[stage], stage)
        /\ \A stage \in {"dns", "connect", "tls", "ttfb"} :
              AbsentOrDifference(ret.event[stage], stage)
        /\ ret.durs.total = NullV \/ ret.durs.total.n >= 0
        /\ ret.event.total = NullV \/ ret.event.total.n >= 0

----------------------------------------------------------------------------
(* The order of results.json *)

\* A run of one vendor with two workers and a plateau of two ticks: a worker can
\* start its second probe while the first probe of the other is in flight
OverlapArgs == [concurrency |-> <<2>>, plateauSec |-> 2, vendorsIn |-> <<"direct">>]

InitOverlap ==
    /\ args = OverlapArgs
    /\ vendors = SortVendors(args.vendorsIn)
    /\ mainpc = "loop"
    /\ pairIdx = 1
    /\ now = 0
    /\ workers = <<>>
    /\ allResults = <<>>
    /\ written = <<>>
    /\ started = 0
    /\ trace = <<>>
    /\ call = NoCall
    /\ ret = NoCall

SpecOverlap == InitOverlap /\ [][Next]_vars

\* C28: the events of the results array that is written are in non-decreasing
\* order of their ts, whatever the interleaving of the workers.
C28_TimeOrdered ==
    \A i, k \in 1..Len(written) : i < k => written[i].ts <= written[k].ts

----------------------------------------------------------------------------
(* An empty list of vendors *)

\* C26: when the vendors file gives an empty list, main never gets to write
\* results.json and to return normally.
C26_EmptyVendorsFatal ==
    vendors = <<>> => mainpc # "done"

----------------------------------------------------------------------------
(* The flags of a stored event *)

\* C29: an event of runOne has ok only if the probe returned, with at least one
\* result and neither an HTTP error status nor a block phrase; then it is not
\* blocked and has neither blockType nor error. A blocked event is not ok.
C29_OkMeansClean ==
    ret.fn = "runOne" =>
        /\ ret.out.ok =>
              /\ call.outcome.kind = "return"
              /\ Len(call.outcome.obs.results) >= 1
              /\ call.outcome.obs.status < 400
              /\ ~call.outcome.obs.hitPhrase
              /\ Len(ret.out.results) >= 1
              /\ ~ret.out.blocked
              /\ ~Has(ret.out, "blockType")
              /\ ~Has(ret.out, "error")
        /\ ret.out.blocked => ~ret.out.ok

\* a page with status 200, no block phrase and two results gave an event with ok
C29_Witness ==
    /\ ret.fn = "runOne"
    /\ call.outcome.kind = "return"
    /\ call.outcome.obs = [status |-> 200, hitPhrase |-> FALSE, results |-> <<"u1", "u2">>]
    /\ ret.out.ok
    /\ ~ret.out.blocked
    /\ ret.out.results = <<"u1", "u2">>

----------------------------------------------------------------------------
(* Aggregator, the captcha rate of an event written in the two formats *)

\* reliability of the events that the two normalizers make of one event
CallCaptcha ==
    /\ call.fn = "unify"
    /\ ret = NoCall
    /\ LET batch == unifyFromResultsJson(call.doc, call.clock).events
           stream == unifyFromNdjsonFile(call.lines, call.clock)
       IN  ret' = [ fn |-> "captcha", batch |-> batch, stream |-> stream,
                    relBatch |-> reliability(batch), relStream |-> reliability(stream) ]
    /\ UNCHANGED <<schedVars, call>>

NextCaptcha == CallCaptcha

SpecCaptcha == InitUnify /\ [][NextCaptcha]_vars

\* the fraction of the events whose failure reason matches the captcha pattern
CaptchaFraction(events) ==
    Rate(Cardinality({ i \in 1..Len(events) :
                         events[i].failure_reason # NULL /\ TestCaptcha(events[i].failure_reason) }),
         Len(events))

\* C30: the captcha rate is the fraction of the events whose failure reason matches
\* the captcha pattern, for the events read from a batch document and for the
\* same events read from stream lines.
C30_CaptchaRate ==
    ret.fn = "captcha" =>
        /\ ret.relBatch.captchaRate = CaptchaFraction(ret.batch)
        /\ ret.relStream.captchaRate = CaptchaFraction(ret.stream)
        /\ ret.relBatch.captchaRate = ret.relStream.captchaRate
====
